---------------------------- MODULE Spec2Model ----------------------------
(***************************************************************************)
(* Supernodal sparse LU of faer-sparse (src/faer-libs/faer-sparse/src/     *)
(* lu.rs): factorize_supernodal_numeric_lu and the four solves of          *)
(* SupernodalLu, as a state machine.  One action per phase of the          *)
(* supernode loop, one per step of a solve.                                *)
(*                                                                         *)
(* Arrays are TLA+ sequences read with the source's 0-based indices        *)
(* through At/Put.  The scalar field E is instantiated with a real field   *)
(* computed exactly: a finite value is a reduced fraction <<num, den>>     *)
(* with den > 0, and NonFinite stands for the non-finite IEEE values a     *)
(* division by zero produces (it absorbs every operation).                 *)
(***************************************************************************)
EXTENDS Integers, Sequences, FiniteSets, TLC

(***************************************************************************)
(* Bounds of the model.                                                    *)
(***************************************************************************)
\* largest matrix order of the generated inputs
N == 3
\* value seeds 0..MaxSeed of the generated inputs
MaxSeed == 1
\* generated entries lie in 0..MaxVal-1
MaxVal == 4
\* largest length and capacity of the vectors given to the resize helpers
MaxVecLen == 2
\* largest length of the permutations given to the permutation products
MaxPermLen == 3
\* the largest matrix the pivot bookkeeping is called on by itself
MaxRows == 4
\* width in bits of the narrow index type of the overflow runs
IndexBits == 4

\* mem::NONE, the sentinel index (usize::MAX in the source)
NONE == -1

(***************************************************************************)
(* 0-based arrays.                                                         *)
(***************************************************************************)
At(a, i) == a[i + 1]
Put(a, i, v) == [a EXCEPT ![i + 1] = v]
Fill(n, v) == [k \in 1..n |-> v]
Iota(n) == [k \in 1..n |-> k - 1]
\* a[lo..hi) as an array of its own
Slice(a, lo, hi) == [k \in 1..(hi - lo) |-> a[lo + k]]
Range(a) == {a[k] : k \in 1..Len(a)}
\* slice::swap
Swap(a, i, j) == [a EXCEPT ![i + 1] = a[j + 1], ![j + 1] = a[i + 1]]

RECURSIVE SortedOf(_)
\* the elements of a finite set of integers in increasing order
SortedOf(S) ==
    IF S = {} THEN <<>>
    ELSE LET mn == CHOOSE x \in S : \A y \in S : x <= y
         IN <<mn>> \o SortedOf(S \ {mn})

RECURSIVE InsertSorted(_, _)
InsertSorted(a, x) ==
    IF a = <<>> THEN <<x>>
    ELSE IF x <= Head(a) THEN <<x>> \o a
    ELSE <<Head(a)>> \o InsertSorted(Tail(a), x)

\* the slice left in the order the marker loops visited the indices
LeftUnsorted(a) == a

RECURSIVE SortUnstable(_)
\* slice::sort_unstable on indices (the result of every sort is the same)
SortUnstable(a) ==
    IF a = <<>> THEN <<>> ELSE InsertSorted(SortUnstable(Tail(a)), Head(a))

IsSorted(a) == \A k \in 1..(Len(a) - 1) : a[k] <= a[k + 1]
IsStrictlySorted(a) == \A k \in 1..(Len(a) - 1) : a[k] < a[k + 1]

RECURSIVE SumSeq(_)
SumSeq(a) == IF a = <<>> THEN 0 ELSE Head(a) + SumSeq(Tail(a))

(***************************************************************************)
(* The scalar field.                                                       *)
(***************************************************************************)
Abs(x) == IF x < 0 THEN -x ELSE x

RECURSIVE GCD(_, _)
GCD(a, b) == IF b = 0 THEN a ELSE GCD(b, a % b)

NonFinite == <<0, 0>>
IsFinite(x) == x[2] # 0

Frac(n, d) ==
    IF d = 0 THEN NonFinite
    ELSE LET g == GCD(Abs(n), Abs(d))
             sg == IF d < 0 THEN -1 ELSE 1
         IN <<(sg * n) \div g, (sg * d) \div g>>

Num(k) == <<k, 1>>
faer_zero == Num(0)
faer_one == Num(1)

faer_add(x, y) ==
    IF IsFinite(x) /\ IsFinite(y)
    THEN Frac(x[1] * y[2] + y[1] * x[2], x[2] * y[2]) ELSE NonFinite
faer_neg(x) == IF IsFinite(x) THEN <<-x[1], x[2]>> ELSE NonFinite
faer_sub(x, y) == faer_add(x, faer_neg(y))
faer_mul(x, y) ==
    IF IsFinite(x) /\ IsFinite(y)
    THEN Frac(x[1] * y[1], x[2] * y[2]) ELSE NonFinite
\* x / y; a zero divisor gives a non-finite value
faer_div(x, y) ==
    IF IsFinite(x) /\ IsFinite(y) /\ y[1] # 0
    THEN Frac(x[1] * y[2], x[2] * y[1]) ELSE NonFinite
\* |x| > |y| for the pivot search; a comparison with a non-finite value is false
AbsGreater(x, y) ==
    IsFinite(x) /\ IsFinite(y) /\ Abs(x[1]) * y[2] > Abs(y[1]) * x[2]


(***************************************************************************)
(* Dense helpers over a matrix kept as a sequence of rows of integers      *)
(* (the caller's matrix) and the sparse column view of it.  An entry is    *)
(* stored iff it is nonzero.                                               *)
(***************************************************************************)
Entry(M, i, j) == M[i + 1][j + 1]
Order(M) == Len(M)
Transpose(M) == [i \in 1..Len(M) |-> [j \in 1..Len(M) |-> M[j][i]]]

\* SparseColMatRef::row_indices_of_col: the stored rows of column j, increasing
row_indices_of_col(M, j) ==
    SortedOf({i \in 0..(Order(M) - 1) : Entry(M, i, j) # 0})
\* SparseColMatRef::compute_nnz
compute_nnz(M) ==
    Cardinality({ij \in (0..(Order(M) - 1)) \X (0..(Order(M) - 1)) :
                    Entry(M, ij[1], ij[2]) # 0})

RECURSIVE Det(_)
\* determinant by expansion along the first row (inputs are integer matrices)
Det(M) ==
    IF Len(M) = 0 THEN 1
    ELSE IF Len(M) = 1 THEN M[1][1]
    ELSE LET n == Len(M)
             Minor(j) == [i \in 1..(n - 1) |->
                            [k \in 1..(n - 1) |-> M[i + 1][IF k < j THEN k ELSE k + 1]]]
             Term(j) == IF M[1][j] = 0 THEN 0
                        ELSE (IF j % 2 = 1 THEN 1 ELSE -1) * M[1][j] * Det(Minor(j))
         IN SumSeq([j \in 1..n |-> Term(j)])

\* the inverse array of a permutation given by its forward array
InverseOf(fwd) == [k \in 1..Len(fwd) |-> (CHOOSE j \in 1..Len(fwd) : fwd[j] = k - 1) - 1]
IsPermutation(p) == Range(p) = 0..(Len(p) - 1)

(***************************************************************************)
(* The symbolic structure handed to the numeric factorization.             *)
(***************************************************************************)
\* pattern of (A Pc^T)^T (A Pc^T): columns i and j of the permuted matrix share a row
ATAPattern(M, cp, i, j) ==
    \E k \in 0..(Order(M) - 1) : Entry(M, k, At(cp, i)) # 0 /\ Entry(M, k, At(cp, j)) # 0

RECURSIVE CholStruct(_, _, _)
\* below-diagonal structure of column j of the Cholesky factor of the pattern above
CholStruct(M, cp, j) ==
    LET n == Order(M)
        ParentOf(c) == LET st == CholStruct(M, cp, c)
                       IN IF st = {} THEN NONE ELSE CHOOSE x \in st : \A y \in st : x <= y
    IN {i \in (j + 1)..(n - 1) : ATAPattern(M, cp, i, j)}
         \cup UNION {{i \in CholStruct(M, cp, c) : i > j} :
                        c \in {c \in 0..(j - 1) : ParentOf(c) = j}}

\* column elimination tree of the permuted matrix: parent(k) = min{i > k : L[i,k] # 0}
col_etree(M, cp) ==
    [k \in 1..Order(M) |->
        LET st == CholStruct(M, cp, k - 1)
        IN IF st = {} THEN NONE ELSE CHOOSE x \in st : \A y \in st : x <= y]

\* supernode_begin: column j+1 joins the supernode of column j iff j is in
\* merge and j+1 is j's parent in the column elimination tree
supernode_begin(etree, merge) ==
    LET n == Len(etree)
    IN SortedOf({0, n} \cup {j + 1 : j \in {j \in 0..(n - 2) :
                                        ~(j \in merge /\ At(etree, j) = j + 1)}})

\* factorize_supernodal_symbolic: index_to_super, then super_etree
index_to_super(ptr, j) ==
    CHOOSE s \in 0..(Len(ptr) - 2) : At(ptr, s) <= j /\ j < At(ptr, s + 1)
super_etree_of(ptr, etree) ==
    [k \in 1..(Len(ptr) - 1) |->
        LET last == At(ptr, k) - 1
        IN IF At(etree, last) # NONE THEN index_to_super(ptr, At(etree, last)) ELSE NONE]

RECURSIVE PostorderFrom(_, _)
\* depth-first postorder of the subtree of node s, children in increasing order
PostorderFrom(parent, s) ==
    LET kids == SortedOf({c \in 0..(Len(parent) - 1) : At(parent, c) = s})
        F[k \in 0..Len(kids)] ==
            IF k = 0 THEN <<>> ELSE F[k - 1] \o PostorderFrom(parent, kids[k])
    IN F[Len(kids)] \o (IF s = NONE THEN <<>> ELSE <<s>>)

\* the SymbolicSupernodalLu of a matrix, a column permutation and a merge set
factorize_supernodal_symbolic(M, cp, merge) ==
    LET etree == col_etree(M, cp)
        ptr == supernode_begin(etree, merge)
        setree == super_etree_of(ptr, etree)
        post == PostorderFrom(setree, NONE)
    IN [supernode_ptr |-> ptr,
        super_etree |-> setree,
        supernode_postorder |-> post,
        supernode_postorder_inv |-> InverseOf(post),
        descendant_count |->
            [k \in 1..Len(setree) |-> Len(PostorderFrom(setree, k - 1)) - 1]]

(***************************************************************************)
(* Inputs.                                                                 *)
(***************************************************************************)
\* entry (i, j) of the generated matrix number seed
Val(i, j, seed) == (seed * i + j + i * j + 1) % MaxVal
\* banded matrix of order n, kl sub-diagonals and ku super-diagonals
BandMatrix(n, kl, ku, seed) ==
    [i \in 1..n |-> [j \in 1..n |->
        IF (i - j) <= kl /\ (j - i) <= ku THEN Val(i - 1, j - 1, seed) ELSE 0]]
\* column permutations: the rotations and the reversal
Rotation(n, k) == [j \in 1..n |-> (j - 1 + k) % n]
Reversal(n) == [j \in 1..n |-> n - j]
ColPerms(n) == {Rotation(n, k) : k \in 0..(n - 1)} \cup {Reversal(n)}

\* scenario S5 of the specification
S5Matrix == <<<<0, 1>>, <<0, 2>>>>

GeneratedInputs ==
    UNION {
      UNION {
        {[A |-> BandMatrix(n, b[1], b[2], b[3]), col_perm |-> cp, merge |-> mg] :
            cp \in ColPerms(n), mg \in SUBSET (0..(n - 2))}
        : b \in (0..(n - 1)) \X (0..(n - 1)) \X (0..MaxSeed)}
      : n \in 1..N}
\* scenario S3: the 6 x 6 identity, factorized with the reversing column permutation
S3Matrix == [i \in 1..6 |-> [j \in 1..6 |-> IF i = j THEN 1 ELSE 0]]
\* scenario S4: the 8 x 8 arrow diag(1..8) + e_1 e_8^T
S4Matrix == [i \in 1..8 |-> [j \in 1..8 |->
                IF i = j THEN i ELSE IF i = 1 /\ j = 8 THEN 1 ELSE 0]]
ScenarioInputs ==
    {[A |-> S5Matrix, col_perm |-> Iota(2), merge |-> {}],
     [A |-> S3Matrix, col_perm |-> Reversal(6), merge |-> {}],
     [A |-> S4Matrix, col_perm |-> Iota(8), merge |-> {}]}
Inputs == GeneratedInputs \cup ScenarioInputs

(***************************************************************************)
(* State.                                                                  *)
(***************************************************************************)
VARIABLES
    A,                    \* the matrix given to the factorization (AT is its transpose)
    col_perm,             \* forward array of the column permutation
    symbolic,             \* the SymbolicSupernodalLu
    lu_before,            \* what the caller's SupernodalLu held when factorize was called
    helper,               \* a call of a helper on its own: resize_* (lu.rs), permutation products (matrix_ops.rs)
    index_max,            \* I::Signed::MAX of the index type I the factorization is compiled for
    row_perm,             \* row_perm[k]: the row pivoted at position k
    row_perm_inv,
    lu,                   \* the SupernodalLu being written, then read by the solves
    contrib_work,         \* per supernode: (values, active per column, active count, MatU8)
    row_global_to_local,
    col_global_to_local,
    marked,
    transpositions,
    A_leftover,
    s,                    \* the supernode of the current iteration
    pc,                   \* position in factorize_supernodal_numeric_lu
    result,               \* <<"none">> while running, then <<"Ok">>, an error or a panic
    scattered,            \* history: how often each entry of A was written to a panel
    allocated,            \* history: (supernode, rows, columns) of each contribution block allocated
    solve,                \* the solve in progress (first caller): its rhs X and workspace temp
    solve2                \* a second caller's solve on the same factor, with its own rhs and workspace

inputs == <<A, col_perm, symbolic, lu_before, helper, index_max>>
perms == <<row_perm, row_perm_inv>>
scratch == <<row_global_to_local, col_global_to_local, marked, transpositions>>
factorization == <<A, col_perm, symbolic, lu_before, index_max, row_perm, row_perm_inv, lu, contrib_work,
                   row_global_to_local, col_global_to_local, marked, transpositions,
                   A_leftover, s, pc, result, scattered, allocated, solve, solve2>>
vars == <<A, col_perm, symbolic, lu_before, helper, index_max, row_perm, row_perm_inv, lu, contrib_work,
          row_global_to_local, col_global_to_local, marked, transpositions,
          A_leftover, s, pc, result, scattered, allocated, solve, solve2>>

AT == Transpose(A)
col_perm_inv == InverseOf(col_perm)
m == Order(A)
n == Order(A)
n_supernodes == Len(symbolic.super_etree)
supernode_ptr == symbolic.supernode_ptr

\* no helper is being called on its own
HelperIdle == [fn |-> "none", pc |-> "idle"]
\* no solve has been called
SolveIdle == [pc |-> "idle", transpose |-> FALSE, rhs |-> <<>>, X |-> <<>>, temp |-> <<>>]

\* SupernodalLu::new
SupernodalLuNew ==
    [nrows |-> 0, ncols |-> 0, nsupernodes |-> 0,
     supernode_ptr |-> <<>>,
     l_col_ptr_for_row_ind |-> <<>>, l_col_ptr_for_val |-> <<>>,
     l_row_ind |-> <<>>, l_val |-> <<>>,
     ut_col_ptr_for_row_ind |-> <<>>, ut_col_ptr_for_val |-> <<>>,
     ut_row_ind |-> <<>>, ut_val |-> <<>>]

\* a SupernodalLu that holds a valid factorization: the one of the 2 x 2 identity
StaleLu ==
    [nrows |-> 2, ncols |-> 2, nsupernodes |-> 2,
     supernode_ptr |-> <<0, 1, 2>>,
     l_col_ptr_for_row_ind |-> <<0, 1, 2>>, l_col_ptr_for_val |-> <<0, 1, 2>>,
     l_row_ind |-> <<0, 1>>, l_val |-> <<faer_one, faer_one>>,
     ut_col_ptr_for_row_ind |-> <<0, 0, 0>>, ut_col_ptr_for_val |-> <<0, 0, 0>>,
     ut_row_ind |-> <<>>, ut_val |-> <<>>]

\* MatU8::new: nrows * ncols bytes, all 1
MatU8New(nrows, ncols) == [data |-> Fill(nrows * ncols, 1), nrows |-> nrows]
\* MatU8 index (row, col)
MatU8At(mat, row, col) == At(mat.data, row + col * mat.nrows)
\* an empty entry of the contribution registry
ContribEmpty == [work |-> <<>>, active |-> <<>>, count |-> 0, mat |-> MatU8New(0, 0)]
work_is_empty(c) == c.work = <<>>

\* resize_index / resize_scalar with reserve_only = false: grow to k elements, zero-filled
resize_index(v, k) == IF k > Len(v) THEN v \o Fill(k - Len(v), 0) ELSE v
resize_scalar(v, k) == IF k > Len(v) THEN v \o Fill(k - Len(v), faer_zero) ELSE v

\* the index type u32
IndexBits32 == 32
\* I::Signed::MAX of an index type of the given width
SignedMax(bits) == (2 ^ (bits - 2) - 1) * 2 + 1
\* a check against the unsigned maximum of the index type
I_checked_unsigned(x, max) == IF x > 2 * max + 1 THEN <<"IndexOverflow">> ELSE <<"Ok", x>>
\* lines 677-683: I_checked, with max = I::Signed::MAX
I_checked(x, max) == IF x > max THEN <<"IndexOverflow">> ELSE <<"Ok", x>>
\* lines 684-691: from_wide_checked on the u128 value x
from_wide_checked(x, max) == IF x > max THEN <<"IndexOverflow">> ELSE <<"Ok", x>>

\* the dimensions and the supernode partition left as the caller passed them
left_valid(f) == f
\* lines 708-711: the factor is marked invalid before anything can fail
invalidate(f) ==
    [f EXCEPT !.nrows = 0, !.ncols = 0, !.nsupernodes = 0, !.supernode_ptr = <<>>]
\* lines 725-733: the four pointer arrays are resized in this order; the first
\* `done` resizes succeed (a failed resize_index leaves its array as it was)
pointers_resized(f, S, done) ==
    [f EXCEPT !.l_col_ptr_for_row_ind = IF done >= 1 THEN resize_index(@, S + 1) ELSE @,
              !.ut_col_ptr_for_row_ind = IF done >= 2 THEN resize_index(@, S + 1) ELSE @,
              !.l_col_ptr_for_val = IF done >= 3 THEN resize_index(@, S + 1) ELSE @,
              !.ut_col_ptr_for_val = IF done >= 4 THEN resize_index(@, S + 1) ELSE @]
\* lines 735-738
pointers_start_at_zero(f) ==
    [f EXCEPT !.l_col_ptr_for_row_ind = Put(@, 0, 0),
              !.ut_col_ptr_for_row_ind = Put(@, 0, 0),
              !.l_col_ptr_for_val = Put(@, 0, 0),
              !.ut_col_ptr_for_val = Put(@, 0, 0)]

(***************************************************************************)
(* Views of the current supernode and of its descendants.                  *)
(***************************************************************************)
s_begin == At(supernode_ptr, s)
s_end == At(supernode_ptr, s + 1)
s_size == s_end - s_begin
\* a window that holds the supernode just before s in postorder only
DescendantsLastOnly ==
    LET sp == At(symbolic.supernode_postorder_inv, s)
        dc == At(symbolic.descendant_count, s)
    IN Slice(symbolic.supernode_postorder, IF dc = 0 THEN sp ELSE sp - 1, sp)
\* supernode_postorder[s_postordered - desc_count .. s_postordered]
Descendants ==
    LET sp == At(symbolic.supernode_postorder_inv, s)
        dc == At(symbolic.descendant_count, s)
    IN Slice(symbolic.supernode_postorder, sp - dc, sp)

SizeOf(d) == At(supernode_ptr, d + 1) - At(supernode_ptr, d)
\* l_row_ind[l_col_ptr_for_row_ind[d] .. l_col_ptr_for_row_ind[d + 1]]
LRowInd(f, d) ==
    Slice(f.l_row_ind, At(f.l_col_ptr_for_row_ind, d), At(f.l_col_ptr_for_row_ind, d + 1))
\* ... [d_size..]
d_row_ind(f, d) ==
    Slice(f.l_row_ind, At(f.l_col_ptr_for_row_ind, d) + SizeOf(d),
          At(f.l_col_ptr_for_row_ind, d + 1))
\* ut_row_ind[ut_col_ptr_for_row_ind[d] .. ut_col_ptr_for_row_ind[d + 1]]
d_col_ind(f, d) ==
    Slice(f.ut_row_ind, At(f.ut_col_ptr_for_row_ind, d), At(f.ut_col_ptr_for_row_ind, d + 1))
\* slice::partition_point(partition_fn(bound)) on a sorted slice: how many are < bound
partition_point(a, bound) == Cardinality({k \in 1..Len(a) : a[k] < bound})

\* a value offset advanced by the index count alone
col_ptr_for_val_by_count(ptr, count, size) == ptr + count
\* lines 845-847, 1045-1047: the value offset of the next supernode
col_ptr_for_val_next(ptr, count, size) == ptr + count * size

\* column-major position of cell (i, j) of a panel with nrows rows
ColMajor(i, j, nrows) == i + j * nrows
\* the L panel of supernode d: (row count) x (d_size), at l_col_ptr_for_val[d]
LRowCount(f, d) == At(f.l_col_ptr_for_row_ind, d + 1) - At(f.l_col_ptr_for_row_ind, d)
LPos(f, d, i, j) == At(f.l_col_ptr_for_val, d) + ColMajor(i, j, LRowCount(f, d))
LRead(f, d, i, j) == At(f.l_val, LPos(f, d, i, j))
\* the U panel of supernode d: (col count) x (d_size) column-major, read transposed
UColCount(f, d) == At(f.ut_col_ptr_for_row_ind, d + 1) - At(f.ut_col_ptr_for_row_ind, d)
UPos(f, d, i, j) == At(f.ut_col_ptr_for_val, d) + ColMajor(j, i, UColCount(f, d))
URead(f, d, i, j) == At(f.ut_val, UPos(f, d, i, j))

RECURSIVE Flatten(_)
Flatten(ss) == IF ss = <<>> THEN <<>> ELSE Head(ss) \o Flatten(Tail(ss))

RECURSIVE MarkCollectOneTagPerSupernode(_, _, _, _)
\* a marker loop whose U pass uses the tag of the L pass, 2s + 1
MarkCollectOneTagPerSupernode(cands, mk, acc, tag) ==
    IF cands = <<>> THEN [indices |-> acc, marked |-> mk]
    ELSE LET i == Head(cands)
             odd == IF tag % 2 = 0 THEN tag - 1 ELSE tag
         IN IF At(mk, i) < odd
            THEN MarkCollectOneTagPerSupernode(Tail(cands), Put(mk, i, odd), Append(acc, i), tag)
            ELSE MarkCollectOneTagPerSupernode(Tail(cands), mk, acc, tag)

RECURSIVE MarkCollect(_, _, _, _)
\* the marker loop: an index is appended, and marked, iff its mark is below tag
MarkCollect(cands, mk, acc, tag) ==
    IF cands = <<>> THEN [indices |-> acc, marked |-> mk]
    ELSE LET i == Head(cands)
         IN IF At(mk, i) < tag
            THEN MarkCollect(Tail(cands), Put(mk, i, tag), Append(acc, i), tag)
            ELSE MarkCollect(Tail(cands), mk, acc, tag)

(***************************************************************************)
(* Init: the state at the top of the supernode loop (lines 695-782).       *)
(***************************************************************************)
\* what the caller's row_perm and row_perm_inv (&mut [I] of length mm) can hold
\* when the function is entered
PassedBuffers(mm) == {Fill(mm, 0), Iota(mm), Rotation(mm, 1)}
\* prior: the caller's SupernodalLu; done: how many of the four resizes of lines
\* 725-733 succeed (4: all, the loop is entered; fewer: Err(OutOfMemory), and
\* the `?` returns before lines 740-745 write row_perm and row_perm_inv)
FactorizeEntry(in, prior, done) ==
    LET sym == factorize_supernodal_symbolic(in.A, in.col_perm, in.merge)
        S == Len(sym.super_etree)
        mm == Order(in.A)
    IN /\ A = in.A
       /\ col_perm = in.col_perm
       /\ symbolic = sym
       /\ lu_before = prior
       /\ helper = HelperIdle
       /\ lu = IF done = 4
               THEN pointers_start_at_zero(pointers_resized(invalidate(prior), S, 4))
               ELSE pointers_resized(invalidate(prior), S, done)
       /\ row_perm \in (IF done = 4 THEN {Iota(mm)} ELSE PassedBuffers(mm))
       /\ row_perm_inv \in (IF done = 4 THEN {Iota(mm)} ELSE PassedBuffers(mm))
       /\ contrib_work = Fill(S, ContribEmpty)
       /\ col_global_to_local = Fill(mm, NONE)
       /\ row_global_to_local = Fill(mm, NONE)
       /\ marked = Fill(mm, 0)
       /\ transpositions = Fill(mm, 0)
       /\ A_leftover = compute_nnz(in.A)
       /\ scattered = [i \in 1..mm |-> [j \in 1..mm |-> 0]]
       /\ allocated = <<>>
       /\ s = 0
       /\ pc = IF done < 4 THEN "returned" ELSE IF S = 0 THEN "Finish" ELSE "LStructure"
       /\ result = IF done < 4 THEN <<"OutOfMemory">> ELSE <<"none">>
       /\ solve = SolveIdle
       /\ solve2 = SolveIdle

Init == index_max = SignedMax(IndexBits32) /\ \E in \in Inputs : FactorizeEntry(in, SupernodalLuNew, 4)

(***************************************************************************)
(* Lines 793-897: the row structure of the L panel of s, then A scattered  *)
(* into it.                                                                *)
(***************************************************************************)
\* the rows visited by the two marker loops of the L pass, in visiting order
LCandidates ==
    LET fromA == [k \in 1..s_size |->
            SelectSeq(row_indices_of_col(A, At(col_perm, s_begin + k - 1)),
                      LAMBDA i : At(row_perm_inv, i) >= s_begin)]
        fromD == [k \in 1..Len(Descendants) |->
            LET d == Descendants[k]
                dcol == d_col_ind(lu, d)
                d_col_start == partition_point(dcol, s_begin)
            IN IF d_col_start < Len(dcol) /\ At(dcol, d_col_start) < s_end
               THEN SelectSeq(d_row_ind(lu, d), LAMBDA i : At(row_perm_inv, i) >= s_begin)
               ELSE <<>>]
    IN Flatten(fromA) \o Flatten(fromD)

\* an L scatter that does not skip the rows already pivoted
LScatterCellsUnfiltered ==
    Flatten([k \in 1..s_size |->
        LET j == s_begin + k - 1
            rows == row_indices_of_col(A, At(col_perm, j))
        IN [r \in 1..Len(rows) |-> <<rows[r], j>>]])

\* the entries of A the L scatter writes: (row, permuted column) in loop order
LScatterCells ==
    Flatten([k \in 1..s_size |->
        LET j == s_begin + k - 1
            rows == SelectSeq(row_indices_of_col(A, At(col_perm, j)),
                              LAMBDA i : At(row_perm_inv, i) >= s_begin)
        IN [r \in 1..Len(rows) |-> <<rows[r], j>>]])

LStructure ==
    /\ pc = "LStructure"
    /\ LET mc == MarkCollect(LCandidates, marked, <<>>, 2 * s + 1)
           s_row_index_count == Len(mc.indices)
           ri1 == At(lu.l_col_ptr_for_row_ind, s) + s_row_index_count
           val1 == col_ptr_for_val_next(At(lu.l_col_ptr_for_val, s), s_row_index_count, s_size)
           sorted == SortUnstable(mc.indices)
           ri0 == At(lu.l_col_ptr_for_row_ind, s)
           val0 == At(lu.l_col_ptr_for_val, s)
           row_ind == LET grown == resize_index(lu.l_row_ind, ri1)
                      IN [k \in 1..Len(grown) |->
                            IF k > ri0 /\ k <= ri1 THEN sorted[k - ri0] ELSE grown[k]]
           g2l == [k \in 1..m |->
                     IF \E idx \in 1..Len(sorted) : sorted[idx] = k - 1
                     THEN (CHOOSE idx \in 1..Len(sorted) : sorted[idx] = k - 1) - 1
                     ELSE row_global_to_local[k]]
           cells == LScatterCells
           \* s_L.fill_zero(), then the scatter
           CellVal(i, j) ==
               IF \E c \in 1..Len(cells) : At(g2l, cells[c][1]) = i /\ cells[c][2] - s_begin = j
               THEN LET c == CHOOSE c \in 1..Len(cells) :
                                At(g2l, cells[c][1]) = i /\ cells[c][2] - s_begin = j
                    IN Num(Entry(A, cells[c][1], At(col_perm, cells[c][2])))
               ELSE faer_zero
           lval == LET grown == resize_scalar(lu.l_val, val1)
                   IN [k \in 1..Len(grown) |->
                         IF k > val0 /\ k <= val1
                         THEN CellVal((k - 1 - val0) % s_row_index_count,
                                      (k - 1 - val0) \div s_row_index_count)
                         ELSE grown[k]]
       IN /\ I_checked(ri1, index_max)[1] = "Ok"
          /\ from_wide_checked(val1, index_max)[1] = "Ok"
          /\ marked' = mc.marked
          /\ lu' = [lu EXCEPT !.l_col_ptr_for_row_ind = Put(@, s + 1, ri1),
                              !.l_col_ptr_for_val = Put(@, s + 1, val1),
                              !.l_row_ind = row_ind,
                              !.l_val = lval]
          /\ row_global_to_local' = g2l
          /\ scattered' = [i \in 1..m |-> [j \in 1..n |->
                 scattered[i][j] +
                   Cardinality({c \in 1..Len(cells) :
                       cells[c][1] = i - 1 /\ At(col_perm, cells[c][2]) = j - 1})]]
          /\ IF A_leftover < Len(cells)
             THEN /\ pc' = "returned"
                  /\ result' = <<"panic", "A_leftover > 0">>
                  /\ A_leftover' = 0
             ELSE /\ pc' = "LPanel"
                  /\ result' = result
                  /\ A_leftover' = A_leftover - Len(cells)
    /\ UNCHANGED <<inputs, allocated, perms, contrib_work, col_global_to_local, transpositions,
                   s, solve, solve2>>

(***************************************************************************)
(* Lines 899-968 (LPanel) and 1098-1168 (UPanel): cells of the             *)
(* contribution blocks of the descendants are subtracted from the panel    *)
(* of s and handed over.                                                   *)
(***************************************************************************)
\* is cell (d_i, d_j) visited by a pass over the rows in rowTaken and the
\* columns lo..hi-1: the column's active count is positive (lines 931, 1132)
TakenCell(c, rowTaken, lo, hi, di, dj) ==
    lo <= dj /\ dj < hi /\ At(c.active, dj) > 0 /\ At(rowTaken, di)

\* a pass that leaves the values of the visited cells in place
WorkKept(c, rowTaken, lo, hi) == c.work
\* d_LU.write(d_i, d_j, E::faer_zero()) on the visited cells (lines 947, 1147)
work_after_take(c, rowTaken, lo, hi) ==
    LET h == c.mat.nrows
    IN [k \in 1..Len(c.work) |->
          IF TakenCell(c, rowTaken, lo, hi, (k - 1) % h, (k - 1) \div h)
          THEN faer_zero ELSE c.work[k]]

\* d_active_mat[(d_i, d_j)] = 0 on the visited cells (lines 949, 1150)
mat_after_take(c, rowTaken, lo, hi) ==
    LET h == c.mat.nrows
    IN [data |-> [k \in 1..Len(c.mat.data) |->
                    IF TakenCell(c, rowTaken, lo, hi, (k - 1) % h, (k - 1) \div h)
                    THEN 0 ELSE c.mat.data[k]],
        nrows |-> h]

\* a pass that never frees
KeepAllocated(c) == c
\* lines 960-965, 1160-1165, 1294-1299: the block is freed when no column is active
free_if_inactive(c) == IF c.count = 0 THEN ContribEmpty ELSE c

\* the cells of block c an LPanel or UPanel pass takes: those in the rows
\* marked in rowTaken and in the columns lo..hi-1 whose active count is
\* positive are zeroed, their flags cleared and counted in taken_rows; a
\* column that reaches 0 leaves d_active_count (lines 930-965, 1131-1165)
TakeCells(c, rowTaken, lo, hi) ==
    LET h == c.mat.nrows
        w == Len(c.active)
        Processed(dj) == lo <= dj /\ dj < hi /\ At(c.active, dj) > 0
        taken_rows(dj) ==
            SumSeq([r \in 1..h |-> IF At(rowTaken, r - 1) THEN MatU8At(c.mat, r - 1, dj) ELSE 0])
        active1 == [k \in 1..w |->
                      IF Processed(k - 1) THEN c.active[k] - taken_rows(k - 1) ELSE c.active[k]]
        count1 == c.count - Cardinality({k \in 1..w : Processed(k - 1) /\ active1[k] = 0})
        fault == IF \E k \in 1..w : Processed(k - 1) /\ active1[k] < 0
                 THEN "d_active[d_j] >= taken_rows"
                 ELSE IF count1 < 0 THEN "d_active_count > 0" ELSE ""
        c1 == [work |-> work_after_take(c, rowTaken, lo, hi),
               active |-> active1,
               count |-> count1,
               mat |-> mat_after_take(c, rowTaken, lo, hi)]
    IN [contrib |-> free_if_inactive(c1), fault |-> fault]

\* the value the pass subtracts from cell (s_i, s_j) of the panel of s: the
\* cell (d_i, d_j) of d with local_row[d_i] = s_i and local_col[d_j] = s_j,
\* among the rows in rowTaken and the processed columns
Subtracted(c, rowTaken, lo, hi, local_row, local_col, s_i, s_j) ==
    LET h == c.mat.nrows
        hit == {k \in 1..Len(c.work) :
                   LET di == (k - 1) % h
                       dj == (k - 1) \div h
                   IN /\ lo <= dj /\ dj < hi /\ At(c.active, dj) > 0
                      /\ At(rowTaken, di)
                      /\ At(local_row, di) = s_i /\ At(local_col, dj) = s_j}
    IN IF hit = {} THEN faer_zero ELSE c.work[CHOOSE k \in hit : TRUE]

\* one descendant of the LPanel pass (lines 900-967)
LPanelDesc(f, cw, d) ==
    LET c == At(cw, d)
        drow == d_row_ind(f, d)
        dcol == d_col_ind(f, d)
        d_col_start == partition_point(dcol, s_begin)
        applies == /\ ~work_is_empty(c)
                   /\ d_col_start < Len(dcol)
                   /\ At(dcol, d_col_start) < s_end
        d_col_mid == d_col_start
                       + partition_point(Slice(dcol, d_col_start, Len(dcol)), s_end)
        rowTaken == [r \in 1..Len(drow) |-> At(row_perm_inv, drow[r]) >= s_begin]
        local_row == [r \in 1..Len(drow) |-> At(row_global_to_local, drow[r])]
        local_col == [k \in 1..Len(dcol) |-> dcol[k] - s_begin]
        tk == TakeCells(c, rowTaken, d_col_start, d_col_mid)
        h == LRowCount(f, s)
        v0 == At(f.l_col_ptr_for_val, s)
        v1 == At(f.l_col_ptr_for_val, s + 1)
        oob == \E r \in 1..Len(drow) : rowTaken[r] /\ local_row[r] = NONE
    IN IF ~applies THEN [lu |-> f, cw |-> cw, fault |-> ""]
       ELSE IF oob THEN [lu |-> f, cw |-> cw, fault |-> "index out of bounds"]
       ELSE [lu |-> [f EXCEPT !.l_val = [k \in 1..Len(f.l_val) |->
                        IF k > v0 /\ k <= v1
                        THEN faer_sub(f.l_val[k],
                                 Subtracted(c, rowTaken, d_col_start, d_col_mid,
                                            local_row, local_col,
                                            (k - 1 - v0) % h, (k - 1 - v0) \div h))
                        ELSE f.l_val[k]]],
             cw |-> Put(cw, d, tk.contrib),
             fault |-> tk.fault]

RECURSIVE LPanelFold(_, _, _)
\* the LPanel pass over the descendants ds, in postorder
LPanelFold(ds, f, cw) ==
    IF ds = <<>> THEN [lu |-> f, cw |-> cw, fault |-> ""]
    ELSE LET r == LPanelDesc(f, cw, Head(ds))
         IN IF r.fault # "" THEN r ELSE LPanelFold(Tail(ds), r.lu, r.cw)

LPanel ==
    /\ pc = "LPanel"
    /\ LET r == LPanelFold(Descendants, lu, contrib_work)
       IN /\ lu' = r.lu
          /\ contrib_work' = r.cw
          /\ IF r.fault # ""
             THEN pc' = "returned" /\ result' = <<"panic", r.fault>>
             ELSE pc' = "PanelLU" /\ result' = result
    /\ UNCHANGED <<inputs, perms, scratch, A_leftover, s, scattered, allocated, solve, solve2>>

(***************************************************************************)
(* Lines 970-994: the panel LU with partial pivoting and the pivot         *)
(* bookkeeping.                                                            *)
(***************************************************************************)
\* the L panel of s as a sequence of rows
LPanelRows(f, d) ==
    [i \in 1..LRowCount(f, d) |-> [j \in 1..SizeOf(d) |-> LRead(f, d, i - 1, j - 1)]]

RECURSIVE PivotScan(_, _, _, _)
\* the scan for the largest magnitude in column k from row i on; best so far
PivotScan(P, k, i, best) ==
    IF i = Len(P) THEN best
    ELSE IF AbsGreater(Entry(P, i, k), Entry(P, best, k))
         THEN PivotScan(P, k, i + 1, i)
         ELSE PivotScan(P, k, i + 1, best)
\* the row of the largest magnitude in column k at or below the diagonal, the
\* first one among equals
PivotRow(P, k) == PivotScan(P, k, k + 1, k)

\* step k of the right-looking elimination: swap, scale the column, update
EliminateStep(P, k) ==
    LET p == PivotRow(P, k)
        Q == Swap(P, k, p)
        piv == Entry(Q, k, k)
    IN [i \in 1..Len(Q) |-> [j \in 1..Len(Q[i]) |->
          IF i - 1 <= k \/ j - 1 < k THEN Q[i][j]
          ELSE IF j - 1 = k THEN faer_div(Q[i][j], piv)
          ELSE faer_sub(Q[i][j], faer_mul(faer_div(Q[i][k + 1], piv), Q[k + 1][j]))]]

RECURSIVE lu_in_place_impl(_, _, _, _)
\* faer_lu::partial_pivoting::compute::lu_in_place_impl on columns k..ncols-1:
\* the factored panel and the transpositions (row k is swapped with k + t[k])
lu_in_place_impl(P, k, ncols, t) ==
    IF k = ncols THEN [panel |-> P, transpositions |-> t]
    ELSE lu_in_place_impl(EliminateStep(P, k), k + 1, ncols,
                          Append(t, PivotRow(P, k) - k))

RECURSIVE PivotForwardSamePositions(_, _, _, _, _)
\* a bookkeeping that swaps row_perm_inv at the positions swapped in row_perm
PivotForwardSamePositions(st, t, idx, sb, cnt) ==
    IF idx = cnt THEN st
    ELSE LET i_t == At(st.rows, idx + At(t, idx))
             kk == At(st.row_perm_inv, i_t)
             rp1 == Swap(st.row_perm, sb + idx, kk)
             rpi1 == Swap(st.row_perm_inv, sb + idx, kk)
             rows1 == Swap(st.rows, idx, idx + At(t, idx))
         IN PivotForwardSamePositions([row_perm |-> rp1, row_perm_inv |-> rpi1, rows |-> rows1],
                                      t, idx + 1, sb, cnt)

RECURSIVE PivotForwardRowsKept(_, _, _, _, _)
\* a forward walk that leaves s_row_indices in its pre-pivot order
PivotForwardRowsKept(st, t, idx, sb, cnt) ==
    IF idx = cnt THEN st
    ELSE LET i_t == At(st.rows, idx + At(t, idx))
             kk == At(st.row_perm_inv, i_t)
             rp1 == Swap(st.row_perm, sb + idx, At(st.row_perm_inv, i_t))
             rpi1 == Swap(st.row_perm_inv, At(rp1, sb + idx), At(rp1, kk))
         IN PivotForwardRowsKept([row_perm |-> rp1, row_perm_inv |-> rpi1, rows |-> st.rows],
                                 t, idx + 1, sb, cnt)

RECURSIVE PivotForward(_, _, _, _, _)
\* lines 982-988, from index idx on: st = [row_perm, row_perm_inv, rows]
PivotForward(st, t, idx, sb, cnt) ==
    IF idx = cnt THEN st
    ELSE LET i_t == At(st.rows, idx + At(t, idx))
             kk == At(st.row_perm_inv, i_t)
             rp1 == Swap(st.row_perm, sb + idx, At(st.row_perm_inv, i_t))
             rpi1 == Swap(st.row_perm_inv, At(rp1, sb + idx), At(rp1, kk))
             rows1 == Swap(st.rows, idx, idx + At(t, idx))
         IN PivotForward([row_perm |-> rp1, row_perm_inv |-> rpi1, rows |-> rows1],
                         t, idx + 1, sb, cnt)

RECURSIVE PivotReverseFromFirst(_, _, _, _)
\* a walk over the transpositions from the first to the last
PivotReverseFromFirst(g2l, rows, t, idx) ==
    IF idx = 0 THEN g2l
    ELSE Swap(PivotReverseFromFirst(g2l, rows, t, idx - 1),
              At(rows, idx - 1), At(rows, idx - 1 + At(t, idx - 1)))

RECURSIVE PivotReverse(_, _, _, _)
\* lines 989-991, the indices idx-1 down to 0
PivotReverse(g2l, rows, t, idx) ==
    IF idx = 0 THEN g2l
    ELSE PivotReverse(Swap(g2l, At(rows, idx - 1), At(rows, idx - 1 + At(t, idx - 1))),
                      rows, t, idx - 1)

\* errors that would name the first or the one-past-last column of the supernode
SymbolicSingularAtBegin(sb, h, size) == <<"SymbolicSingular", sb>>
SymbolicSingularAtEnd(sb, h, size) == <<"SymbolicSingular", sb + size>>
\* line 971: LuError::SymbolicSingular(s_begin + s_L.nrows())
SymbolicSingular(sb, h, size) == <<"SymbolicSingular", sb + h>>

PanelLU ==
    /\ pc = "PanelLU"
    /\ LET h == LRowCount(lu, s)
           v0 == At(lu.l_col_ptr_for_val, s)
           v1 == At(lu.l_col_ptr_for_val, s + 1)
           ri0 == At(lu.l_col_ptr_for_row_ind, s)
           ri1 == At(lu.l_col_ptr_for_row_ind, s + 1)
       IN IF h < s_size
          THEN /\ pc' = "returned"
               /\ result' = SymbolicSingular(s_begin, h, s_size)
               /\ UNCHANGED <<lu, perms, scratch>>
          ELSE LET r == lu_in_place_impl(LPanelRows(lu, s), 0, s_size, <<>>)
                   t == r.transpositions
                   fw == PivotForward([row_perm |-> row_perm,
                                       row_perm_inv |-> row_perm_inv,
                                       rows |-> LRowInd(lu, s)],
                                      t, 0, s_begin, s_size)
                   g2l == PivotReverse(row_global_to_local, fw.rows, t, s_size)
                   holds == \A idx \in 1..Len(fw.rows) : At(g2l, fw.rows[idx]) = idx - 1
               IN /\ lu' = [lu EXCEPT
                       !.l_val = [k \in 1..Len(@) |->
                           IF k > v0 /\ k <= v1
                           THEN r.panel[((k - 1 - v0) % h) + 1][((k - 1 - v0) \div h) + 1]
                           ELSE @[k]],
                       !.l_row_ind = [k \in 1..Len(@) |->
                           IF k > ri0 /\ k <= ri1 THEN fw.rows[k - ri0] ELSE @[k]]]
                  /\ transpositions' = [k \in 1..Len(transpositions) |->
                        IF k > s_begin /\ k <= s_end THEN t[k - s_begin]
                        ELSE transpositions[k]]
                  /\ row_perm' = fw.row_perm
                  /\ row_perm_inv' = fw.row_perm_inv
                  /\ row_global_to_local' = g2l
                  /\ UNCHANGED <<col_global_to_local, marked>>
                  /\ IF holds
                     THEN pc' = "UStructure" /\ result' = result
                     ELSE /\ pc' = "returned"
                          /\ result' = <<"panic", "row_global_to_local[i] == idx">>
    /\ UNCHANGED <<inputs, contrib_work, A_leftover, s, scattered, allocated, solve, solve2>>

(***************************************************************************)
(* Lines 996-1096: the column structure of the U panel of s, then A^T      *)
(* scattered into it.                                                      *)
(***************************************************************************)
\* does a row of d's block get pivoted by s (lines 1026-1028, 1115-1117)
contributes_to_u(f, d) ==
    \E r \in 1..Len(d_row_ind(f, d)) :
        /\ At(row_perm_inv, d_row_ind(f, d)[r]) >= s_begin
        /\ At(row_perm_inv, d_row_ind(f, d)[r]) < s_end

\* the candidates with every column of a contributing descendant kept, also
\* the ones before the end of s
UCandidatesFromFirstColumn ==
    LET fromA == [k \in 1..s_size |->
            LET pi == At(row_perm, s_begin + k - 1)
                cols == row_indices_of_col(AT, pi)
                pcols == [c \in 1..Len(cols) |-> At(col_perm_inv, cols[c])]
            IN SelectSeq(pcols, LAMBDA pj : pj >= s_end)]
        fromD == [k \in 1..Len(Descendants) |->
            LET d == Descendants[k]
            IN IF contributes_to_u(lu, d) THEN d_col_ind(lu, d) ELSE <<>>]
    IN Flatten(fromA) \o Flatten(fromD)

\* the permuted columns visited by the two marker loops of the U pass
UCandidates ==
    LET fromA == [k \in 1..s_size |->
            LET pi == At(row_perm, s_begin + k - 1)
                cols == row_indices_of_col(AT, pi)
                pcols == [c \in 1..Len(cols) |-> At(col_perm_inv, cols[c])]
            IN SelectSeq(pcols, LAMBDA pj : pj >= s_end)]
        fromD == [k \in 1..Len(Descendants) |->
            LET d == Descendants[k]
                dcol == d_col_ind(lu, d)
            IN IF contributes_to_u(lu, d)
               THEN Slice(dcol, partition_point(dcol, s_end), Len(dcol))
               ELSE <<>>]
    IN Flatten(fromA) \o Flatten(fromD)

\* the entries of A the U scatter writes: (position i of the pivoted row,
\* permuted column) in loop order
UScatterCells ==
    Flatten([k \in 1..s_size |->
        LET i == s_begin + k - 1
            pi == At(row_perm, i)
            cols == row_indices_of_col(AT, pi)
            pcols == SelectSeq([c \in 1..Len(cols) |-> At(col_perm_inv, cols[c])],
                               LAMBDA pj : pj >= s_end)
        IN [c \in 1..Len(pcols) |-> <<i, pcols[c]>>]])

UStructure ==
    /\ pc = "UStructure"
    /\ LET mc == MarkCollect(UCandidates, marked, <<>>, 2 * s + 2)
           s_col_index_count == Len(mc.indices)
           ri0 == At(lu.ut_col_ptr_for_row_ind, s)
           val0 == At(lu.ut_col_ptr_for_val, s)
           ri1 == ri0 + s_col_index_count
           val1 == col_ptr_for_val_next(val0, s_col_index_count, s_size)
           sorted == SortUnstable(mc.indices)
           col_ind == LET grown == resize_index(lu.ut_row_ind, ri1)
                      IN [k \in 1..Len(grown) |->
                            IF k > ri0 /\ k <= ri1 THEN sorted[k - ri0] ELSE grown[k]]
           g2l == [k \in 1..n |->
                     IF \E idx \in 1..Len(sorted) : sorted[idx] = k - 1
                     THEN (CHOOSE idx \in 1..Len(sorted) : sorted[idx] = k - 1) - 1
                     ELSE col_global_to_local[k]]
           cells == UScatterCells
           \* s_U.fill_zero(), then the scatter into s_U[i - s_begin, local column]
           CellVal(i, j) ==
               IF \E c \in 1..Len(cells) :
                      cells[c][1] - s_begin = i /\ At(g2l, cells[c][2]) = j
               THEN LET c == CHOOSE c \in 1..Len(cells) :
                                cells[c][1] - s_begin = i /\ At(g2l, cells[c][2]) = j
                    IN Num(Entry(A, At(row_perm, cells[c][1]), At(col_perm, cells[c][2])))
               ELSE faer_zero
           uval == LET grown == resize_scalar(lu.ut_val, val1)
                   IN [k \in 1..Len(grown) |->
                         IF k > val0 /\ k <= val1
                         THEN CellVal((k - 1 - val0) \div s_col_index_count,
                                      (k - 1 - val0) % s_col_index_count)
                         ELSE grown[k]]
       IN /\ I_checked(ri1, index_max)[1] = "Ok"
          /\ from_wide_checked(val1, index_max)[1] = "Ok"
          /\ marked' = mc.marked
          /\ lu' = [lu EXCEPT !.ut_col_ptr_for_row_ind = Put(@, s + 1, ri1),
                              !.ut_col_ptr_for_val = Put(@, s + 1, val1),
                              !.ut_row_ind = col_ind,
                              !.ut_val = uval]
          /\ col_global_to_local' = g2l
          /\ scattered' = [i \in 1..m |-> [j \in 1..n |->
                 scattered[i][j] +
                   Cardinality({c \in 1..Len(cells) :
                       At(row_perm, cells[c][1]) = i - 1 /\ At(col_perm, cells[c][2]) = j - 1})]]
          /\ IF A_leftover < Len(cells)
             THEN /\ pc' = "returned"
                  /\ result' = <<"panic", "A_leftover > 0">>
                  /\ A_leftover' = 0
             ELSE /\ pc' = "UPanel"
                  /\ result' = result
                  /\ A_leftover' = A_leftover - Len(cells)
    /\ UNCHANGED <<inputs, allocated, perms, contrib_work, row_global_to_local, transpositions,
                   s, solve, solve2>>

\* one descendant of the UPanel pass (lines 1099-1167)
UPanelDesc(f, cw, d) ==
    LET c == At(cw, d)
        drow == d_row_ind(f, d)
        dcol == d_col_ind(f, d)
        applies == ~work_is_empty(c) /\ contributes_to_u(f, d)
        d_col_start == partition_point(dcol, s_end)
        rowTaken == [r \in 1..Len(drow) |->
                       /\ At(row_perm_inv, drow[r]) >= s_begin
                       /\ At(row_perm_inv, drow[r]) < s_end]
        local_row == [r \in 1..Len(drow) |-> At(row_global_to_local, drow[r])]
        local_col == [k \in 1..Len(dcol) |-> At(col_global_to_local, dcol[k])]
        tk == TakeCells(c, rowTaken, d_col_start, Len(dcol))
        w == UColCount(f, s)
        v0 == At(f.ut_col_ptr_for_val, s)
        v1 == At(f.ut_col_ptr_for_val, s + 1)
        oob == \E r \in 1..Len(drow), k \in 1..Len(dcol) :
                  /\ rowTaken[r] /\ k > d_col_start /\ c.active[k] > 0
                  /\ (local_row[r] = NONE \/ local_row[r] >= s_size \/ local_col[k] = NONE)
    IN IF ~applies THEN [lu |-> f, cw |-> cw, fault |-> ""]
       ELSE IF oob THEN [lu |-> f, cw |-> cw, fault |-> "index out of bounds"]
       ELSE [lu |-> [f EXCEPT !.ut_val = [k \in 1..Len(f.ut_val) |->
                        IF k > v0 /\ k <= v1
                        THEN faer_sub(f.ut_val[k],
                                 Subtracted(c, rowTaken, d_col_start, Len(dcol),
                                            local_row, local_col,
                                            (k - 1 - v0) \div w, (k - 1 - v0) % w))
                        ELSE f.ut_val[k]]],
             cw |-> Put(cw, d, tk.contrib),
             fault |-> tk.fault]

RECURSIVE UPanelFold(_, _, _)
\* the UPanel pass over the descendants ds, in postorder
UPanelFold(ds, f, cw) ==
    IF ds = <<>> THEN [lu |-> f, cw |-> cw, fault |-> ""]
    ELSE LET r == UPanelDesc(f, cw, Head(ds))
         IN IF r.fault # "" THEN r ELSE UPanelFold(Tail(ds), r.lu, r.cw)

UPanel ==
    /\ pc = "UPanel"
    /\ LET r == UPanelFold(Descendants, lu, contrib_work)
       IN /\ lu' = r.lu
          /\ contrib_work' = r.cw
          /\ IF r.fault # ""
             THEN pc' = "returned" /\ result' = <<"panic", r.fault>>
             ELSE pc' = "Front" /\ result' = result
    /\ UNCHANGED <<inputs, perms, scratch, A_leftover, s, scattered, allocated, solve, solve2>>

(***************************************************************************)
(* Lines 1169-1303: the triangular solve of the U panel, the contribution  *)
(* block of s and the Front pass over the descendants.                     *)
(***************************************************************************)
RECURSIVE UnitLowerSolveRow(_, _, _, _, _)
\* entry (i, c) of L_top^{-1} U for the unit lower triangular top of the L
\* panel of d: U[i][c] - sum over k < i of L[i][k] * X[k][c], k increasing
UnitLowerSolveRow(f, d, i, c, k) ==
    IF k = 0 THEN URead(f, d, i, c)
    ELSE faer_sub(UnitLowerSolveRow(f, d, i, c, k - 1),
                  faer_mul(LRead(f, d, i, k - 1),
                           UnitLowerSolveRow(f, d, k - 1, c, k - 1)))

\* solve_unit_lower_triangular_in_place(s_L[0..s_size, ..], s_U)
solve_unit_lower_triangular_in_place(f, d) ==
    LET w == UColCount(f, d)
        v0 == At(f.ut_col_ptr_for_val, d)
        v1 == At(f.ut_col_ptr_for_val, d + 1)
    IN [f EXCEPT !.ut_val = [k \in 1..Len(@) |->
           IF k > v0 /\ k <= v1
           THEN UnitLowerSolveRow(f, d, (k - 1 - v0) \div w, (k - 1 - v0) % w,
                                  (k - 1 - v0) \div w)
           ELSE @[k]]]

RECURSIVE MatMulCell(_, _, _, _, _)
\* entry (i, j) of s_L[s_size.., ..] * s_U, the products summed for k increasing
MatMulCell(f, d, i, j, k) ==
    IF k = 0 THEN faer_zero
    ELSE faer_add(MatMulCell(f, d, i, j, k - 1),
                  faer_mul(LRead(f, d, SizeOf(d) + i, k - 1), URead(f, d, k - 1, j)))

\* a block whose active counts are the full height of the L panel
NewContribFullHeight(f, d) ==
    LET h == LRowCount(f, d) - SizeOf(d)
        w == UColCount(f, d)
    IN [work |-> [k \in 1..(h * w) |->
                    MatMulCell(f, d, (k - 1) % h, (k - 1) \div h, SizeOf(d))],
        active |-> Fill(w, LRowCount(f, d)),
        count |-> w,
        mat |-> MatU8New(h, w)]

\* lines 1176-1201: the new block of s, (row count - s_size) x (col count)
NewContrib(f, d) ==
    LET h == LRowCount(f, d) - SizeOf(d)
        w == UColCount(f, d)
    IN [work |-> [k \in 1..(h * w) |->
                    MatMulCell(f, d, (k - 1) % h, (k - 1) \div h, SizeOf(d))],
        active |-> Fill(w, h),
        count |-> w,
        mat |-> MatU8New(h, w)]

\* a block allocated whenever the panel has columns right of the supernode
allocates_for_any_columns(h, size, w) == w > 0
\* a block allocated whenever the panel has rows below the diagonal block
allocates_for_any_rows(h, size, w) == h > size
\* a block allocated for every supernode
allocates_always(h, size, w) == h >= size /\ w >= 0
\* line 1175: s allocates its contribution block
allocates_contribution(h, size, w) == h > size /\ w > 0

\* lines 1179: to_wide(I(s_row_index_count - s_size)) * to_wide(I(s_col_index_count))
block_elements(h, size, w) == (h - size) * w

\* does a row of d's block stay unpivoted after s (lines 1219-1221)
contributes_to_front(f, d) ==
    \E r \in 1..Len(d_row_ind(f, d)) : At(row_perm_inv, d_row_ind(f, d)[r]) >= s_end

\* one descendant of the Front pass (lines 1204-1301); the block of s is cw[s]
FrontDesc(f, cw, d) ==
    LET c == At(cw, d)
        sc == At(cw, s)
        drow == d_row_ind(f, d)
        dcol == d_col_ind(f, d)
        applies == ~work_is_empty(c) /\ contributes_to_front(f, d)
        d_col_start == partition_point(dcol, s_end)
        h == c.mat.nrows
        w == Len(c.active)
        \* d_active_rows
        rowActive(di) == /\ At(row_perm_inv, At(drow, di)) >= s_end
                         /\ At(row_global_to_local, At(drow, di)) # NONE
        Processed(dj) == /\ dj >= d_col_start
                         /\ At(c.active, dj) > 0
                         /\ At(col_global_to_local, At(dcol, dj)) # NONE
        Taken(di, dj) == Processed(dj) /\ rowActive(di) /\ MatU8At(c.mat, di, dj) # 0
        taken_rows(dj) == Cardinality({di \in 0..(h - 1) : Taken(di, dj)})
        active1 == [k \in 1..w |->
                      IF Processed(k - 1) THEN c.active[k] - taken_rows(k - 1) ELSE c.active[k]]
        count1 == c.count - Cardinality({k \in 1..w : Processed(k - 1) /\ active1[k] = 0})
        c1 == [work |-> [k \in 1..Len(c.work) |->
                           IF Taken((k - 1) % h, (k - 1) \div h) THEN faer_zero ELSE c.work[k]],
               active |-> active1,
               count |-> count1,
               mat |-> [data |-> [k \in 1..Len(c.mat.data) |->
                                    IF Taken((k - 1) % h, (k - 1) \div h) THEN 0
                                    ELSE c.mat.data[k]],
                        nrows |-> h]]
        sh == sc.mat.nrows
        \* the cell of d added to cell (s_i, s_j) of the block of s
        Added(s_i, s_j) ==
            LET hit == {k \in 1..Len(c.work) :
                           LET di == (k - 1) % h
                               dj == (k - 1) \div h
                           IN /\ Taken(di, dj)
                              /\ At(row_global_to_local, At(drow, di)) - s_size = s_i
                              /\ At(col_global_to_local, At(dcol, dj)) = s_j}
            IN IF hit = {} THEN faer_zero ELSE c.work[CHOOSE k \in hit : TRUE]
        sc1 == [sc EXCEPT !.work = [k \in 1..Len(@) |->
                   faer_add(@[k], Added((k - 1) % sh, (k - 1) \div sh))]]
        oob == \E di \in 0..(h - 1), dj \in 0..(w - 1) :
                  /\ Taken(di, dj)
                  /\ At(row_global_to_local, At(drow, di)) < s_size
        underflow == (\E k \in 1..w : active1[k] < 0) \/ count1 < 0
    IN IF ~applies THEN [lu |-> f, cw |-> cw, fault |-> ""]
       ELSE IF oob THEN [lu |-> f, cw |-> cw, fault |-> "index out of bounds"]
       ELSE IF underflow THEN [lu |-> f, cw |-> cw, fault |-> "attempt to subtract with overflow"]
       ELSE [lu |-> f,
             cw |-> Put(Put(cw, s, sc1), d, free_if_inactive(c1)),
             fault |-> ""]

RECURSIVE FrontFold(_, _, _)
\* the Front pass over the descendants ds, in postorder
FrontFold(ds, f, cw) ==
    IF ds = <<>> THEN [lu |-> f, cw |-> cw, fault |-> ""]
    ELSE LET r == FrontDesc(f, cw, Head(ds))
         IN IF r.fault # "" THEN r ELSE FrontFold(Tail(ds), r.lu, r.cw)

Front ==
    /\ pc = "Front"
    /\ LET f == solve_unit_lower_triangular_in_place(lu, s)
           creates == allocates_contribution(LRowCount(lu, s), s_size, UColCount(lu, s))
           cw0 == Put(contrib_work, s, NewContrib(f, s))
           r == IF creates THEN FrontFold(Descendants, f, cw0)
                ELSE [lu |-> f, cw |-> contrib_work, fault |-> ""]
       IN /\ creates => from_wide_checked(block_elements(LRowCount(lu, s), s_size,
                                                         UColCount(lu, s)), index_max)[1] = "Ok"
          /\ lu' = r.lu
          /\ contrib_work' = r.cw
          /\ IF r.fault # ""
             THEN pc' = "returned" /\ result' = <<"panic", r.fault>>
             ELSE pc' = "Clean" /\ result' = result
          /\ allocated' = IF creates
                          THEN Append(allocated,
                                      <<s, LRowCount(lu, s) - s_size, UColCount(lu, s)>>)
                          ELSE allocated
    /\ UNCHANGED <<inputs, perms, scratch, A_leftover, s, scattered, solve, solve2>>

(***************************************************************************)
(* Lines 1305-1311: the local maps are reset and the loop advances.        *)
(***************************************************************************)
\* a reset that leaves the entries of the rows pivoted by s
CleanUnpivotedRows ==
    /\ pc = "Clean"
    /\ row_global_to_local' = [k \in 1..m |->
          IF k - 1 \in Range(d_row_ind(lu, s)) THEN NONE ELSE row_global_to_local[k]]
    /\ col_global_to_local' = [k \in 1..n |->
          IF k - 1 \in Range(d_col_ind(lu, s)) THEN NONE ELSE col_global_to_local[k]]
    /\ s' = s + 1
    /\ pc' = IF s + 1 < n_supernodes THEN "LStructure" ELSE "Finish"
    /\ UNCHANGED <<inputs, perms, lu, contrib_work, marked, transpositions,
                   A_leftover, result, scattered, allocated, solve, solve2>>
Clean ==
    /\ pc = "Clean"
    /\ row_global_to_local' = [k \in 1..m |->
          IF k - 1 \in Range(LRowInd(lu, s)) THEN NONE ELSE row_global_to_local[k]]
    /\ col_global_to_local' = [k \in 1..n |->
          IF k - 1 \in Range(d_col_ind(lu, s)) THEN NONE ELSE col_global_to_local[k]]
    /\ s' = s + 1
    /\ pc' = IF s + 1 < n_supernodes THEN "LStructure" ELSE "Finish"
    /\ UNCHANGED <<inputs, perms, lu, contrib_work, marked, transpositions,
                   A_leftover, result, scattered, allocated, solve, solve2>>

(***************************************************************************)
(* Lines 1312-1323: after the loop.                                        *)
(***************************************************************************)
\* an end of the loop that leaves l_row_ind in original row numbers
FinishWithoutRemap ==
    /\ pc = "Finish"
    /\ IF A_leftover # 0
       THEN /\ result' = <<"panic", "A_leftover == 0">>
            /\ lu' = lu
       ELSE /\ result' = <<"Ok">>
            /\ lu' = [lu EXCEPT
                  !.nrows = m,
                  !.ncols = n,
                  !.nsupernodes = n_supernodes,
                  !.supernode_ptr = supernode_ptr]
    /\ pc' = "returned"
    /\ UNCHANGED <<inputs, perms, contrib_work, scratch, A_leftover, s, scattered, allocated, solve, solve2>>
Finish ==
    /\ pc = "Finish"
    /\ IF A_leftover # 0
       THEN /\ result' = <<"panic", "A_leftover == 0">>
            /\ lu' = lu
       ELSE /\ result' = <<"Ok">>
            /\ lu' = [lu EXCEPT
                  !.l_row_ind = [k \in 1..Len(@) |->
                      IF k <= At(lu.l_col_ptr_for_row_ind, n_supernodes)
                      THEN At(row_perm_inv, @[k]) ELSE @[k]],
                  !.nrows = m,
                  !.ncols = n,
                  !.nsupernodes = n_supernodes,
                  !.supernode_ptr = supernode_ptr]
    /\ pc' = "returned"
    /\ UNCHANGED <<inputs, perms, contrib_work, scratch, A_leftover, s, scattered, allocated, solve, solve2>>

(***************************************************************************)
(* SupernodalLu solves (lines 208-556), on a right-hand side of one        *)
(* column held as a 0-based array.                                         *)
(***************************************************************************)
\* faer_core::permutation::permute_rows(dst, src, perm): dst[i] = src[perm.forward[i]]
permute_rows(src, forward) == [k \in 1..Len(src) |-> At(src, At(forward, k - 1))]

RECURSIVE DotAcc(_, _, _)
\* the product of a matrix row with the first cnt entries of y, summed in index order
DotAcc(row, y, cnt) ==
    IF cnt = 0 THEN faer_zero
    ELSE faer_add(DotAcc(row, y, cnt - 1), faer_mul(row[cnt], y[cnt]))

RECURSIVE LowerSolve(_, _, _, _)
\* forward substitution: the first cnt entries of the solution of T y = b,
\* T lower triangular, a sequence of rows; unit: its diagonal is taken as 1
LowerSolve(T, b, unit, cnt) ==
    IF cnt = 0 THEN <<>>
    ELSE LET y == LowerSolve(T, b, unit, cnt - 1)
             r == faer_sub(b[cnt], DotAcc(T[cnt], y, cnt - 1))
         IN Append(y, IF unit THEN r ELSE faer_div(r, T[cnt][cnt]))

\* back substitution, by reversing the order of the unknowns
UpperSolve(T, b, unit) ==
    LET k == Len(b)
        Rev == [i \in 1..k |-> [j \in 1..k |-> T[k + 1 - i][k + 1 - j]]]
        rb == [i \in 1..k |-> b[k + 1 - i]]
        y == LowerSolve(Rev, rb, unit, k)
    IN [i \in 1..k |-> y[k + 1 - i]]

\* MatRef::transpose of a matrix of ncols columns
MatTranspose(M, ncols) == [j \in 1..ncols |-> [i \in 1..Len(M) |-> M[i][j]]]

\* rows lo .. lo + Len(seg) of X replaced by seg
PutRows(X, lo, seg) ==
    [k \in 1..Len(X) |-> IF k - 1 >= lo /\ k - 1 < lo + Len(seg) THEN At(seg, k - 1 - lo) ELSE X[k]]

RECURSIVE SubAt(_, _, _, _)
\* X[rows[idx]] -= work[idx] for idx increasing
SubAt(X, rows, work, cnt) ==
    IF cnt = 0 THEN X
    ELSE LET Y == SubAt(X, rows, work, cnt - 1)
             i == At(rows, cnt - 1)
         IN Put(Y, i, faer_sub(At(Y, i), At(work, cnt - 1)))

LuSize(f, d) == At(f.supernode_ptr, d + 1) - At(f.supernode_ptr, d)
\* l_row_ind[..][s_size..] of the finished factor
LuBotRows(f, d) ==
    Slice(f.l_row_ind, At(f.l_col_ptr_for_row_ind, d) + LuSize(f, d),
          At(f.l_col_ptr_for_row_ind, d + 1))
\* L.split_at_row(s_size): the square top and the rest of the L panel
L_top(f, d) ==
    [i \in 1..LuSize(f, d) |-> [j \in 1..LuSize(f, d) |-> LRead(f, d, i - 1, j - 1)]]
L_bot(f, d) ==
    [i \in 1..(LRowCount(f, d) - LuSize(f, d)) |->
        [j \in 1..LuSize(f, d) |-> LRead(f, d, LuSize(f, d) + i - 1, j - 1)]]
\* the U panel read transposed: s_size rows, one column per entry of ut_row_ind
U_right(f, d) ==
    [i \in 1..LuSize(f, d) |-> [j \in 1..UColCount(f, d) |-> URead(f, d, i - 1, j - 1)]]

\* one supernode of l_solve_in_place_with_conj (lines 287-328)
l_solve_step(f, X, d) ==
    LET sb == At(f.supernode_ptr, d)
        ss == LuSize(f, d)
        rows == LuBotRows(f, d)
        top == LowerSolve(L_top(f, d), Slice(X, sb, sb + ss), TRUE, ss)
        work == [k \in 1..Len(rows) |-> DotAcc(L_bot(f, d)[k], top, ss)]
    IN SubAt(PutRows(X, sb, top), rows, work, Len(rows))

\* one supernode of l_solve_transpose_in_place_with_conj (lines 355-398)
l_solve_transpose_step(f, X, d) ==
    LET sb == At(f.supernode_ptr, d)
        ss == LuSize(f, d)
        rows == LuBotRows(f, d)
        work == [k \in 1..Len(rows) |-> At(X, rows[k])]
        L_botT == MatTranspose(L_bot(f, d), ss)
        seg == [k \in 1..ss |->
                  faer_sub(At(X, sb + k - 1), DotAcc(L_botT[k], work, Len(rows)))]
    IN PutRows(X, sb, UpperSolve(MatTranspose(L_top(f, d), ss), seg, TRUE))

\* one supernode of u_solve_in_place_with_conj (lines 425-476)
u_solve_step(f, X, d) ==
    LET sb == At(f.supernode_ptr, d)
        ss == LuSize(f, d)
        cols == d_col_ind(f, d)
        work == [k \in 1..Len(cols) |-> At(X, cols[k])]
        seg == [k \in 1..ss |->
                  faer_sub(At(X, sb + k - 1), DotAcc(U_right(f, d)[k], work, Len(cols)))]
    IN PutRows(X, sb, UpperSolve(L_top(f, d), seg, FALSE))

\* one supernode of u_solve_transpose_in_place_with_conj (lines 503-554)
u_solve_transpose_step(f, X, d) ==
    LET sb == At(f.supernode_ptr, d)
        ss == LuSize(f, d)
        cols == d_col_ind(f, d)
        top == LowerSolve(MatTranspose(L_top(f, d), ss), Slice(X, sb, sb + ss), FALSE, ss)
        U_rightT == MatTranspose(U_right(f, d), Len(cols))
        work == [k \in 1..Len(cols) |-> DotAcc(U_rightT[k], top, ss)]
    IN SubAt(PutRows(X, sb, top), cols, work, Len(cols))

RECURSIVE l_solve_upto(_, _, _)
\* l_solve_in_place_with_conj (lines 265-330): for s in 0..cnt
l_solve_upto(f, X, cnt) ==
    IF cnt = 0 THEN X ELSE l_solve_step(f, l_solve_upto(f, X, cnt - 1), cnt - 1)
l_solve_in_place_with_conj(f, X) == l_solve_upto(f, X, f.nsupernodes)

RECURSIVE l_solve_transpose_from(_, _, _)
\* l_solve_transpose_in_place_with_conj (lines 333-400): for s in (from..nsupernodes).rev()
l_solve_transpose_from(f, X, from) ==
    IF from = f.nsupernodes THEN X
    ELSE l_solve_transpose_step(f, l_solve_transpose_from(f, X, from + 1), from)
l_solve_transpose_in_place_with_conj(f, X) == l_solve_transpose_from(f, X, 0)

RECURSIVE u_solve_from(_, _, _)
\* u_solve_in_place_with_conj (lines 403-478): for s in (from..nsupernodes).rev()
u_solve_from(f, X, from) ==
    IF from = f.nsupernodes THEN X
    ELSE u_solve_step(f, u_solve_from(f, X, from + 1), from)
u_solve_in_place_with_conj(f, X) == u_solve_from(f, X, 0)

RECURSIVE u_solve_transpose_from(_, _, _)
\* the U^T solve with the supernodes visited last to first
u_solve_transpose_from(f, X, from) ==
    IF from = f.nsupernodes THEN X
    ELSE u_solve_transpose_step(f, u_solve_transpose_from(f, X, from + 1), from)
u_solve_transpose_reversed(f, X) == u_solve_transpose_from(f, X, 0)

RECURSIVE u_solve_transpose_upto(_, _, _)
\* u_solve_transpose_in_place_with_conj (lines 481-556): for s in 0..cnt
u_solve_transpose_upto(f, X, cnt) ==
    IF cnt = 0 THEN X
    ELSE u_solve_transpose_step(f, u_solve_transpose_upto(f, X, cnt - 1), cnt - 1)
u_solve_transpose_in_place_with_conj(f, X) == u_solve_transpose_upto(f, X, f.nsupernodes)

\* right-hand sides of the solves: the unit vectors and the ramp 1..k
UnitVector(k, j) == [i \in 1..k |-> IF i - 1 = j THEN faer_one ELSE faer_zero]
RhsSet(k) ==
    {UnitVector(k, j) : j \in 0..(k - 1)}
       \cup {[i \in 1..k |-> Num(i)], [i \in 1..k |-> Num(i - 1)]}

\* the callers of the solves: each call owns its rhs (X) and its workspace (temp)
Callers == {1, 2}
\* lines 213-223: the rhs and the workspace of the call of caller c
BuffersOf(c) == IF c = 1 THEN solve ELSE solve2
\* one workspace for all calls: the first call's, once it is allocated
SharedWorkspace(c) == IF solve.temp = <<>> THEN BuffersOf(c).temp ELSE solve.temp
\* lines 221-222: temp, taken from the stack of the call of caller c
WorkspaceOf(c) == BuffersOf(c).temp
\* a step of caller c writes its own buffers only (&self is not written)
WriteBuffers(c, r) ==
    /\ IF c = 1 THEN solve' = r /\ solve2' = solve2
                ELSE solve2' = r /\ solve' = solve
    /\ UNCHANGED <<inputs, perms, lu, contrib_work, scratch, A_leftover, s, pc,
                   result, scattered, allocated>>

\* solve_in_place_with_conj, lines 219-225: the asserts and temp = Pr * rhs
SolveStart(c) ==
    /\ pc = "returned" /\ result = <<"Ok">> /\ BuffersOf(c).pc = "idle"
    /\ lu.nrows = lu.ncols
    /\ \E b \in RhsSet(lu.nrows) :
          WriteBuffers(c, [pc |-> "l_solve", transpose |-> FALSE, rhs |-> b, X |-> b,
                           temp |-> permute_rows(b, row_perm)])

\* line 226
LSolve(c) ==
    /\ BuffersOf(c).pc = "l_solve"
    /\ WriteBuffers(c, [BuffersOf(c) EXCEPT !.pc = "u_solve",
                              !.temp = l_solve_in_place_with_conj(lu, WorkspaceOf(c))])

\* line 227
USolve(c) ==
    /\ BuffersOf(c).pc = "u_solve"
    /\ WriteBuffers(c, [BuffersOf(c) EXCEPT !.pc = "permute_out",
                              !.temp = u_solve_in_place_with_conj(lu, WorkspaceOf(c))])

\* line 228: permute_rows(X, temp, col_perm)
SolveFinish(c) ==
    /\ BuffersOf(c).pc = "permute_out"
    /\ WriteBuffers(c, [BuffersOf(c) EXCEPT !.pc = "done",
                              !.X = permute_rows(WorkspaceOf(c), col_perm)])

\* solve_transpose_in_place_with_conj, lines 243-248: temp = Pc * rhs
SolveTransposeStart(c) ==
    /\ pc = "returned" /\ result = <<"Ok">> /\ BuffersOf(c).pc = "idle"
    /\ lu.nrows = lu.ncols
    /\ \E b \in RhsSet(lu.nrows) :
          WriteBuffers(c, [pc |-> "u_solve_transpose", transpose |-> TRUE, rhs |-> b,
                           X |-> b, temp |-> permute_rows(b, col_perm)])

\* lines 249-254
USolveTranspose(c) ==
    /\ BuffersOf(c).pc = "u_solve_transpose"
    /\ WriteBuffers(c, [BuffersOf(c) EXCEPT !.pc = "l_solve_transpose",
                              !.temp = u_solve_transpose_in_place_with_conj(lu, WorkspaceOf(c))])

\* lines 255-260
LSolveTranspose(c) ==
    /\ BuffersOf(c).pc = "l_solve_transpose"
    /\ WriteBuffers(c, [BuffersOf(c) EXCEPT !.pc = "permute_out_transpose",
                              !.temp = l_solve_transpose_in_place_with_conj(lu, WorkspaceOf(c))])

\* line 261: permute_rows(X, temp, row_perm.inverse())
SolveTransposeFinish(c) ==
    /\ BuffersOf(c).pc = "permute_out_transpose"
    /\ WriteBuffers(c, [BuffersOf(c) EXCEPT !.pc = "done",
                              !.X = permute_rows(WorkspaceOf(c), row_perm_inv)])

Next ==
    \/ LStructure \/ LPanel \/ PanelLU \/ UStructure \/ UPanel \/ Front
    \/ Clean \/ Finish
    \/ SolveStart(1) \/ LSolve(1) \/ USolve(1) \/ SolveFinish(1)
    \/ SolveTransposeStart(1) \/ USolveTranspose(1) \/ LSolveTranspose(1)
    \/ SolveTransposeFinish(1)

Spec == Init /\ [][Next]_vars

\* two callers solving on one factor (SupernodalLu is Sync), their steps interleaved
ConcurrentInputs ==
    {in \in Inputs : /\ in.col_perm = Rotation(Order(in.A), 1)
                     /\ in.merge \in {{}, 0..(Order(in.A) - 2)}}
InitConcurrent ==
    /\ index_max = SignedMax(IndexBits32)
    /\ \E in \in ConcurrentInputs : FactorizeEntry(in, SupernodalLuNew, 4)
NextConcurrent ==
    \/ LStructure \/ LPanel \/ PanelLU \/ UStructure \/ UPanel \/ Front
    \/ Clean \/ Finish
    \/ \E c \in Callers :
          \/ SolveStart(c) \/ LSolve(c) \/ USolve(c) \/ SolveFinish(c)
          \/ SolveTransposeStart(c) \/ USolveTranspose(c) \/ LSolveTranspose(c)
          \/ SolveTransposeFinish(c)
SpecConcurrent == InitConcurrent /\ [][NextConcurrent]_vars

(***************************************************************************)
(* The Err(OutOfMemory) exits of the supernode loop: a try_reserve of one   *)
(* of the resize_* helpers fails (it can only when the vector has to grow). *)
(***************************************************************************)
\* lines 843-859
LStructureOutOfMemory ==
    /\ pc = "LStructure"
    /\ LET mc == MarkCollect(LCandidates, marked, <<>>, 2 * s + 1)
           s_row_index_count == Len(mc.indices)
           ri1 == At(lu.l_col_ptr_for_row_ind, s) + s_row_index_count
           val1 == col_ptr_for_val_next(At(lu.l_col_ptr_for_val, s), s_row_index_count, s_size)
           ptrs == [lu EXCEPT !.l_col_ptr_for_row_ind = Put(@, s + 1, ri1),
                              !.l_col_ptr_for_val = Put(@, s + 1, val1)]
       IN /\ I_checked(ri1, index_max)[1] = "Ok"
          /\ from_wide_checked(val1, index_max)[1] = "Ok"
          /\ marked' = mc.marked
          /\ \/ \* line 853: resize_index returns the error, l_row_ind is as before
                /\ ri1 > Len(lu.l_row_ind)
                /\ lu' = ptrs
                /\ result' = <<"OutOfMemory">>
             \/ \* line 859: resize_scalar still calls v.resize, which grows l_val
                \* by a second allocation or aborts the process
                /\ val1 > Len(lu.l_val)
                /\ \E regrown \in BOOLEAN :
                      IF regrown
                      THEN /\ lu' = [ptrs EXCEPT !.l_row_ind = resize_index(@, ri1),
                                                 !.l_val = resize_scalar(@, val1)]
                           /\ result' = <<"OutOfMemory">>
                      ELSE /\ lu' = [ptrs EXCEPT !.l_row_ind = resize_index(@, ri1)]
                           /\ result' = <<"abort", "handle_alloc_error">>
    /\ pc' = "returned"
    /\ UNCHANGED <<inputs, allocated, perms, contrib_work, row_global_to_local,
                   col_global_to_local, transpositions, A_leftover, scattered,
                   s, solve, solve2>>

\* lines 1043-1059
UStructureOutOfMemory ==
    /\ pc = "UStructure"
    /\ LET mc == MarkCollect(UCandidates, marked, <<>>, 2 * s + 2)
           s_col_index_count == Len(mc.indices)
           ri1 == At(lu.ut_col_ptr_for_row_ind, s) + s_col_index_count
           val1 == col_ptr_for_val_next(At(lu.ut_col_ptr_for_val, s), s_col_index_count, s_size)
           ptrs == [lu EXCEPT !.ut_col_ptr_for_row_ind = Put(@, s + 1, ri1),
                              !.ut_col_ptr_for_val = Put(@, s + 1, val1)]
       IN /\ I_checked(ri1, index_max)[1] = "Ok"
          /\ from_wide_checked(val1, index_max)[1] = "Ok"
          /\ marked' = mc.marked
          /\ \/ \* line 1053
                /\ ri1 > Len(lu.ut_row_ind)
                /\ lu' = ptrs
                /\ result' = <<"OutOfMemory">>
             \/ \* line 1059
                /\ val1 > Len(lu.ut_val)
                /\ \E regrown \in BOOLEAN :
                      IF regrown
                      THEN /\ lu' = [ptrs EXCEPT !.ut_row_ind = resize_index(@, ri1),
                                                 !.ut_val = resize_scalar(@, val1)]
                           /\ result' = <<"OutOfMemory">>
                      ELSE /\ lu' = [ptrs EXCEPT !.ut_row_ind = resize_index(@, ri1)]
                           /\ result' = <<"abort", "handle_alloc_error">>
    /\ pc' = "returned"
    /\ UNCHANGED <<inputs, allocated, perms, contrib_work, row_global_to_local,
                   col_global_to_local, transpositions, A_leftover, scattered,
                   s, solve, solve2>>

\* lines 1169-1182: the try_reserve of resize_maybe_uninit_scalar is refused
\* for the block of s, whose work vector is empty, and line 65 sets its length
\* past its capacity: undefined behaviour.  A build without debug assertions
\* returns the error with the length set (contents undefined); a build with
\* them aborts in Vec::set_len, or in the allocation of its message
FrontOutOfMemory ==
    /\ pc = "Front"
    /\ allocates_contribution(LRowCount(lu, s), s_size, UColCount(lu, s))
    /\ from_wide_checked(block_elements(LRowCount(lu, s), s_size, UColCount(lu, s)),
                         index_max)[1] = "Ok"
    /\ lu' = solve_unit_lower_triangular_in_place(lu, s)
    /\ \/ /\ \E garbage \in {faer_zero, NonFinite} :
                contrib_work' = Put(contrib_work, s,
                    [At(contrib_work, s) EXCEPT
                        !.work = Fill(block_elements(LRowCount(lu, s), s_size,
                                                     UColCount(lu, s)), garbage)])
          /\ result' = <<"OutOfMemory">>
       \/ /\ contrib_work' = contrib_work
          /\ result' \in {<<"abort", "Vec::set_len">>, <<"abort", "handle_alloc_error">>}
    /\ pc' = "returned"
    /\ UNCHANGED <<inputs, allocated, perms, scratch, A_leftover, s, scattered,
                   solve, solve2>>

(***************************************************************************)
(* The Err(IndexOverflow) exits of the supernode loop, for an index type I  *)
(* of IndexBits bits: an offset or an element count above I::Signed::MAX.   *)
(***************************************************************************)
\* lines 843-847: the offsets of supernode s + 1 in l_row_ind and in l_val
LStructureIndexOverflow ==
    /\ pc = "LStructure"
    /\ LET mc == MarkCollect(LCandidates, marked, <<>>, 2 * s + 1)
           s_row_index_count == Len(mc.indices)
           ri == I_checked(At(lu.l_col_ptr_for_row_ind, s) + s_row_index_count, index_max)
           val == from_wide_checked(
                      col_ptr_for_val_next(At(lu.l_col_ptr_for_val, s), s_row_index_count, s_size),
                      index_max)
       IN /\ ri[1] = "IndexOverflow" \/ val[1] = "IndexOverflow"
          /\ marked' = mc.marked
          \* line 843 is stored when only the check of line 845 fails
          /\ lu' = IF ri[1] = "Ok"
                   THEN [lu EXCEPT !.l_col_ptr_for_row_ind = Put(@, s + 1, ri[2])]
                   ELSE lu
    /\ pc' = "returned"
    /\ result' = <<"IndexOverflow">>
    /\ UNCHANGED <<inputs, allocated, perms, contrib_work, row_global_to_local,
                   col_global_to_local, transpositions, A_leftover, scattered,
                   s, solve, solve2>>

\* lines 1043-1047: the offsets of supernode s + 1 in ut_row_ind and in ut_val
UStructureIndexOverflow ==
    /\ pc = "UStructure"
    /\ LET mc == MarkCollect(UCandidates, marked, <<>>, 2 * s + 2)
           s_col_index_count == Len(mc.indices)
           ri == I_checked(At(lu.ut_col_ptr_for_row_ind, s) + s_col_index_count, index_max)
           val == from_wide_checked(
                      col_ptr_for_val_next(At(lu.ut_col_ptr_for_val, s), s_col_index_count, s_size),
                      index_max)
       IN /\ ri[1] = "IndexOverflow" \/ val[1] = "IndexOverflow"
          /\ marked' = mc.marked
          /\ lu' = IF ri[1] = "Ok"
                   THEN [lu EXCEPT !.ut_col_ptr_for_row_ind = Put(@, s + 1, ri[2])]
                   ELSE lu
    /\ pc' = "returned"
    /\ result' = <<"IndexOverflow">>
    /\ UNCHANGED <<inputs, allocated, perms, contrib_work, row_global_to_local,
                   col_global_to_local, transpositions, A_leftover, scattered,
                   s, solve, solve2>>

\* lines 1169-1181: the element count of the contribution block of s
FrontIndexOverflow ==
    /\ pc = "Front"
    /\ allocates_contribution(LRowCount(lu, s), s_size, UColCount(lu, s))
    /\ from_wide_checked(block_elements(LRowCount(lu, s), s_size, UColCount(lu, s)),
                         index_max)[1] = "IndexOverflow"
    /\ lu' = solve_unit_lower_triangular_in_place(lu, s)
    /\ pc' = "returned"
    /\ result' = <<"IndexOverflow">>
    /\ UNCHANGED <<inputs, allocated, perms, contrib_work, scratch, A_leftover, s, scattered,
                   solve, solve2>>

\* SparseColMatRef<'_, I, E>: the dimensions and the column pointers of A are
\* values of I no larger than I::Signed::MAX, so A has at most max stored entries
Representable(in, max) == Order(in.A) <= max /\ compute_nnz(in.A) <= max
\* a matrix of order k with the entries of `cells` (0-based row and column)
\* stored, the one at (0, 0) the largest of its column
MatrixOfCells(k, cells) ==
    [i \in 1..k |-> [j \in 1..k |->
        IF <<i - 1, j - 1>> \notin cells THEN 0 ELSE IF i = 1 /\ j = 1 THEN 2 ELSE 1]]
\* matrices with few entries whose factors outgrow the narrow index type, each
\* supernode of size 1: column 0 and (0, 1) (the rows of column 0 stay in the
\* L panel of supernode 1); row 0 and (1, 0) (the columns of row 0 stay in the
\* U panel of supernode 1); row 0 and column 0 (the block of supernode 0 is
\* full)
NarrowInputs ==
    LET max == SignedMax(IndexBits)
        half == (max + 1) \div 2
        lower == {<<i, 0>> : i \in 0..half} \cup {<<0, 1>>}
        upper == {<<0, j>> : j \in 0..(half + 1)} \cup {<<1, 0>>}
        cross == {<<i, 0>> : i \in 0..(half - 1)} \cup {<<0, j>> : j \in 0..(half - 1)}
    IN {in \in ConcurrentInputs \cup
                {[A |-> MatrixOfCells(half + 1, lower), col_perm |-> Iota(half + 1), merge |-> {}],
                 [A |-> MatrixOfCells(half + 2, upper), col_perm |-> Iota(half + 2), merge |-> {}],
                 [A |-> MatrixOfCells(half, cross), col_perm |-> Iota(half), merge |-> {}]} :
           Representable(in, max)}
InitNarrow ==
    /\ index_max = SignedMax(IndexBits)
    /\ \E in \in NarrowInputs : FactorizeEntry(in, SupernodalLuNew, 4)
NextNarrow ==
    \/ LStructure \/ LPanel \/ PanelLU \/ UStructure \/ UPanel \/ Front
    \/ Clean \/ Finish
    \/ LStructureIndexOverflow \/ UStructureIndexOverflow \/ FrontIndexOverflow
SpecNarrow == InitNarrow /\ [][NextNarrow]_vars

\* a factorization into a SupernodalLu that is new or holds an earlier
\* factorization, with allocations that can fail, for the 32-bit index type
\* and for the narrow one, whose offsets can overflow
InitFallible ==
    \E prior \in {SupernodalLuNew, StaleLu}, done \in 0..4 :
       \/ /\ index_max = SignedMax(IndexBits32)
          /\ \E in \in ConcurrentInputs \cup ScenarioInputs : FactorizeEntry(in, prior, done)
       \/ /\ index_max = SignedMax(IndexBits)
          /\ \E in \in NarrowInputs : FactorizeEntry(in, prior, done)
NextFallible ==
    \/ LStructure \/ LPanel \/ PanelLU \/ UStructure \/ UPanel \/ Front
    \/ Clean \/ Finish
    \/ LStructureOutOfMemory \/ UStructureOutOfMemory \/ FrontOutOfMemory
    \/ LStructureIndexOverflow \/ UStructureIndexOverflow \/ FrontIndexOverflow
SpecFallible == InitFallible /\ [][NextFallible]_vars

(***************************************************************************)
(* The resize helpers (lines 28-92) on vectors with a capacity.  A vector   *)
(* is its elements and its capacity; a GroupFor<E, Vec<..>> is a sequence   *)
(* of component vectors.  `granted` is the allocator's answer to the        *)
(* try_reserve of a component, `regrown` its answer to the allocation of a  *)
(* Vec::resize that finds the capacity too small.                           *)
(***************************************************************************)
Max(a, b) == IF a >= b THEN a ELSE b
\* usize::saturating_sub
saturating_sub(a, b) == IF a >= b THEN a - b ELSE 0
\* a value of MaybeUninit memory that was never written
Uninit == <<"uninit">>

\* RawVec::grow_amortized: the capacity after an amortized growth to at least
\* `required` elements; 4 is the least capacity std gives a vector that has one
\* (MIN_NON_ZERO_CAP for elements of 2 to 1024 bytes: the indices and the units)
grow_amortized(cap, required) == Max(Max(2 * cap, required), 4)
\* Vec::try_reserve / try_reserve_exact(additional)
try_reserve(v, additional, exact, granted) ==
    IF v.cap - Len(v.elems) >= additional THEN [err |-> FALSE, v |-> v]
    ELSE IF granted
         THEN [err |-> FALSE,
               v |-> [v EXCEPT !.cap = IF exact THEN Len(v.elems) + additional
                                       ELSE grow_amortized(v.cap, Len(v.elems) + additional)]]
         ELSE [err |-> TRUE, v |-> v]
\* the elements after Vec::resize(new_len, value) / after set_len(new_len)
resized_elems(elems, new_len, value) ==
    IF new_len <= Len(elems) THEN SubSeq(elems, 1, new_len)
    ELSE elems \o Fill(new_len - Len(elems), value)

\* lines 76-92
resize_index_vec(v, k, exact, reserve_only, granted) ==
    LET r == try_reserve(v, saturating_sub(k, Len(v.elems)), exact, granted)
    IN IF r.err
       THEN [ret |-> "OutOfMemory", failed |-> TRUE, vs |-> <<v>>]
       ELSE [ret |-> "Ok", failed |-> FALSE,
             vs |-> <<IF reserve_only THEN r.v
                      ELSE [r.v EXCEPT !.elems = resized_elems(@, Max(k, Len(@)), 0)]>>]

\* the closure of lines 41-48 on one component that is not skipped
resize_scalar_unit(v, k, exact, reserve_only, granted, regrown) ==
    LET r == try_reserve(v, saturating_sub(k, Len(v.elems)), exact, granted)
        new_len == Max(k, Len(v.elems))
    IN IF reserve_only THEN [failed |-> r.err, aborted |-> FALSE, v |-> r.v]
       ELSE IF new_len <= r.v.cap
       THEN [failed |-> r.err, aborted |-> FALSE,
             v |-> [r.v EXCEPT !.elems = resized_elems(@, new_len, faer_zero)]]
       \* the reserve failed and v.resize allocates again: it grows or aborts
       ELSE IF regrown
       THEN [failed |-> r.err, aborted |-> FALSE,
             v |-> [elems |-> resized_elems(v.elems, new_len, faer_zero),
                    cap |-> grow_amortized(v.cap, new_len)]]
       ELSE [failed |-> r.err, aborted |-> TRUE, v |-> r.v]

RECURSIVE resize_scalar_map(_, _, _, _, _, _, _, _, _)
\* E::faer_map over the components from component c on (lines 41-48)
resize_scalar_map(vs, c, k, exact, reserve_only, granted, regrown, failed, out) ==
    IF c > Len(vs) THEN [failed |-> failed, aborted |-> FALSE, vs |-> out]
    ELSE IF failed
    THEN resize_scalar_map(vs, c + 1, k, exact, reserve_only, granted, regrown, failed,
                           Append(out, vs[c]))
    ELSE LET u == resize_scalar_unit(vs[c], k, exact, reserve_only, granted[c], regrown[c])
         IN IF u.aborted
            THEN [failed |-> TRUE, aborted |-> TRUE,
                  vs |-> Append(out, u.v) \o SubSeq(vs, c + 1, Len(vs))]
            ELSE resize_scalar_map(vs, c + 1, k, exact, reserve_only, granted, regrown,
                                   u.failed, Append(out, u.v))
\* lines 28-54
resize_scalar_group(vs, k, exact, reserve_only, granted, regrown) ==
    LET r == resize_scalar_map(vs, 1, k, exact, reserve_only, granted, regrown, FALSE, <<>>)
    IN [ret |-> IF r.aborted THEN "abort" ELSE IF r.failed THEN "OutOfMemory" ELSE "Ok",
        failed |-> r.failed, vs |-> r.vs]

RECURSIVE resize_maybe_uninit_map(_, _, _, _, _, _, _)
\* E::faer_map over the components from component c on (lines 62-67): after the
\* try_reserve, failed or not, the length is set to k.  A set_len past the
\* capacity (line 65 after a refused reserve) is undefined behaviour: a build
\* with debug assertions aborts in Vec::set_len, a build without them goes on
\* with the length set
resize_maybe_uninit_map(vs, c, k, granted, debug_assertions, failed, out) ==
    IF c > Len(vs) THEN [failed |-> failed, aborted |-> FALSE, vs |-> out]
    ELSE IF failed
    THEN resize_maybe_uninit_map(vs, c + 1, k, granted, debug_assertions, failed,
                                 Append(out, vs[c]))
    ELSE LET r == try_reserve(vs[c], saturating_sub(k, Len(vs[c].elems)), FALSE, granted[c])
         IN IF k > r.v.cap /\ debug_assertions
            THEN [failed |-> TRUE, aborted |-> TRUE,
                  vs |-> Append(out, r.v) \o SubSeq(vs, c + 1, Len(vs))]
            ELSE resize_maybe_uninit_map(vs, c + 1, k, granted, debug_assertions, r.err,
                     Append(out, [r.v EXCEPT !.elems = resized_elems(@, k, Uninit)]))
\* lines 57-73
resize_maybe_uninit_scalar(vs, k, granted, debug_assertions) ==
    LET r == resize_maybe_uninit_map(vs, 1, k, granted, debug_assertions, FALSE, <<>>)
    IN [ret |-> IF r.aborted THEN "abort" ELSE IF r.failed THEN "OutOfMemory" ELSE "Ok",
        failed |-> r.failed, vs |-> r.vs]

\* the vectors given to the helpers: lengths and capacities up to MaxVecLen
Vecs(len, value) ==
    {[elems |-> [i \in 1..len |-> value], cap |-> c] : c \in len..MaxVecLen}
ResizeCalls ==
    UNION {
      {[fn |-> "resize_index", pc |-> "called", vs |-> <<v>>, k |-> k, exact |-> e[1],
        reserve_only |-> e[2]] :
           v \in Vecs(len, 7), k \in 0..(MaxVecLen + 1), e \in BOOLEAN \X BOOLEAN}
      \cup
      {[fn |-> "resize_scalar", pc |-> "called", vs |-> g, k |-> k, exact |-> e[1],
        reserve_only |-> e[2]] :
           g \in {<<v>> : v \in Vecs(len, Num(7))}
                    \cup (Vecs(len, Num(7)) \X Vecs(len, Num(7))),
           k \in 0..(MaxVecLen + 1), e \in BOOLEAN \X BOOLEAN}
      \cup
      {[fn |-> "resize_maybe_uninit_scalar", pc |-> "called", vs |-> g, k |-> k,
        exact |-> FALSE, reserve_only |-> FALSE] :
           g \in {<<v>> : v \in Vecs(len, Num(7))}
                    \cup (Vecs(len, Num(7)) \X Vecs(len, Num(7))),
           k \in 0..(MaxVecLen + 1)}
      : len \in 0..MaxVecLen}

\* the helper returns: the vectors after the call, what it returned, whether a
\* try_reserve failed during the call
Returned(r) ==
    helper' = [helper EXCEPT !.pc = "returned"] @@
              [before |-> helper.vs, after |-> r.vs, ret |-> r.ret, failed |-> r.failed]
ResizeIndex ==
    /\ helper.fn = "resize_index" /\ helper.pc = "called"
    /\ \E granted \in BOOLEAN :
          Returned(resize_index_vec(helper.vs[1], helper.k, helper.exact,
                                    helper.reserve_only, granted))
    /\ UNCHANGED factorization
ResizeScalar ==
    /\ helper.fn = "resize_scalar" /\ helper.pc = "called"
    /\ \E granted \in [1..Len(helper.vs) -> BOOLEAN],
          regrown \in [1..Len(helper.vs) -> BOOLEAN] :
          Returned(resize_scalar_group(helper.vs, helper.k, helper.exact,
                                       helper.reserve_only, granted, regrown))
    /\ UNCHANGED factorization
ResizeMaybeUninitScalar ==
    /\ helper.fn = "resize_maybe_uninit_scalar" /\ helper.pc = "called"
    /\ \E granted \in [1..Len(helper.vs) -> BOOLEAN], debug_assertions \in BOOLEAN :
          Returned(resize_maybe_uninit_scalar(helper.vs, helper.k, granted, debug_assertions))
    /\ UNCHANGED factorization

(***************************************************************************)
(* The permutation products of matrix_ops.rs (lines 353-477).  A            *)
(* permutation is its forward and its inverse array, a dense matrix a       *)
(* sequence of rows.                                                        *)
(***************************************************************************)
\* Permutation::new_checked(forward, inverse)
Permutation(fwd) == [forward |-> fwd, inverse |-> InverseOf(fwd)]
\* PermutationRef::inverse: the two arrays exchanged
inverse(p) == [forward |-> p.inverse, inverse |-> p.forward]

RECURSIVE inverse_of_product(_, _, _)
\* lines 373-375: inv[fwd[i]] = i for i = 0, 1, ...
inverse_of_product(fwd, i, inv) ==
    IF i >= Len(fwd) THEN inv
    ELSE inverse_of_product(fwd, i + 1, Put(inv, At(fwd, i), i))
\* the product composed through the inverse array of rhs
perm_mul_perm_through_inverse(lhs, rhs) ==
    LET fwd == [i \in 1..Len(lhs.forward) |-> At(lhs.forward, rhs.inverse[i])]
    IN [forward |-> fwd, inverse |-> inverse_of_product(fwd, 0, Fill(Len(fwd), 0))]
\* lines 353-385: Perm * Perm
perm_mul_perm(lhs, rhs) ==
    LET fwd == [i \in 1..Len(lhs.forward) |-> At(lhs.forward, rhs.forward[i])]
    IN [forward |-> fwd, inverse |-> inverse_of_product(fwd, 0, Fill(Len(fwd), 0))]
\* the rows of rhs picked through the inverse array
perm_mul_dense_through_inverse(lhs, rhs) ==
    [i \in 1..Len(rhs) |-> [j \in 1..Len(rhs[1]) |-> rhs[lhs.inverse[i] + 1][j]]]
\* lines 408-431: Perm * Dense
perm_mul_dense(lhs, rhs) ==
    [i \in 1..Len(rhs) |-> [j \in 1..Len(rhs[1]) |-> rhs[lhs.forward[i] + 1][j]]]
\* lines 454-477: Dense * Perm
dense_mul_perm(lhs, rhs) ==
    [i \in 1..Len(lhs) |-> [j \in 1..Len(lhs[1]) |-> lhs[i][rhs.inverse[j] + 1]]]

\* the permutations of 0..k-1
PermutationsOf(k) ==
    {Permutation(f) : f \in {g \in [1..k -> 0..(k - 1)] : IsPermutation(g)}}
\* Mat::from_fn(nrows, ncols, |i, j| j + ncols * i)
MatFromFn(nrows, ncols) == [i \in 1..nrows |-> [j \in 1..ncols |-> (j - 1) + ncols * (i - 1)]]
\* test_perm_mul (lines 1690-1726): pl, pr and A
TestPermMulCalls ==
    LET pl == Permutation(<<5, 1, 4, 0, 2, 3>>)
        pr == Permutation(<<1, 4, 0, 2, 3>>)
    IN {[fn |-> "perm_mul_perm", pc |-> "called", lhs |-> pl, rhs |-> inverse(pl)],
        [fn |-> "perm_mul_dense", pc |-> "called", lhs |-> pl, rhs |-> MatFromFn(6, 5)],
        [fn |-> "dense_mul_perm", pc |-> "called", lhs |-> MatFromFn(6, 5), rhs |-> pr]}
PermCalls ==
    TestPermMulCalls \cup
    UNION {
      {[fn |-> "perm_mul_perm", pc |-> "called", lhs |-> p, rhs |-> q] :
           p \in PermutationsOf(k), q \in PermutationsOf(k)}
      \cup
      {[fn |-> "perm_mul_dense", pc |-> "called", lhs |-> p, rhs |-> MatFromFn(k, c)] :
           p \in PermutationsOf(k), c \in 1..2}
      \cup
      {[fn |-> "dense_mul_perm", pc |-> "called", lhs |-> MatFromFn(r, k), rhs |-> p] :
           p \in PermutationsOf(k), r \in 1..2}
      : k \in 1..MaxPermLen}

PermMulPerm ==
    /\ helper.fn = "perm_mul_perm" /\ helper.pc = "called"
    /\ helper' = [helper EXCEPT !.pc = "returned"]
                    @@ [out |-> perm_mul_perm(helper.lhs, helper.rhs)]
    /\ UNCHANGED factorization
PermMulDense ==
    /\ helper.fn = "perm_mul_dense" /\ helper.pc = "called"
    /\ helper' = [helper EXCEPT !.pc = "returned"]
                    @@ [out |-> perm_mul_dense(helper.lhs, helper.rhs)]
    /\ UNCHANGED factorization
DenseMulPerm ==
    /\ helper.fn = "dense_mul_perm" /\ helper.pc = "called"
    /\ helper' = [helper EXCEPT !.pc = "returned"]
                    @@ [out |-> dense_mul_perm(helper.lhs, helper.rhs)]
    /\ UNCHANGED factorization

(***************************************************************************)
(* Dense + Dense and Dense - Dense of matrix_ops.rs (lines 1191-1228), on   *)
(* matrices with at least one row and one column.                           *)
(***************************************************************************)
\* (nrows(), ncols())
Shape(M) == <<Len(M), Len(M[1])>>
\* zipped!(out, lhs, rhs) over the entries both operands have
Overlap(lhs, rhs) ==
    [nrows |-> IF Len(lhs) < Len(rhs) THEN Len(lhs) ELSE Len(rhs),
     ncols |-> IF Len(lhs[1]) < Len(rhs[1]) THEN Len(lhs[1]) ELSE Len(rhs[1])]
\* a sum that checks the row counts only
mat_add_rows_checked(lhs, rhs) ==
    IF Len(lhs) # Len(rhs) THEN [ret |-> "panic"]
    ELSE [ret |-> "Ok",
          out |-> [i \in 1..Overlap(lhs, rhs).nrows |-> [j \in 1..Overlap(lhs, rhs).ncols |->
                      faer_add(lhs[i][j], rhs[i][j])]]]
\* lines 1191-1208: the assertion on the shapes, then out = zeros(lhs.nrows(),
\* rhs.ncols()) written entry by entry
mat_add(lhs, rhs) ==
    IF Shape(lhs) # Shape(rhs) THEN [ret |-> "panic"]
    ELSE [ret |-> "Ok",
          out |-> [i \in 1..Len(lhs) |-> [j \in 1..Len(rhs[1]) |->
                      faer_add(lhs[i][j], rhs[i][j])]]]
\* lines 1209-1228
mat_sub(lhs, rhs) ==
    IF Shape(lhs) # Shape(rhs) THEN [ret |-> "panic"]
    ELSE [ret |-> "Ok",
          out |-> [i \in 1..Len(lhs) |-> [j \in 1..Len(rhs[1]) |->
                      faer_sub(lhs[i][j], rhs[i][j])]]]

\* a matrix of scalars from one of integers, each divided by den
ScalarMat(M, den) == [i \in 1..Len(M) |-> [j \in 1..Len(M[1]) |-> Frac(M[i][j], den)]]
\* the operands of the tests of lines 1586-1634 (matrices() in tenths), and
\* every pair of shapes up to 2 x 2
DenseCalls ==
    LET A22 == ScalarMat(<<<<1, 2>>, <<3, 4>>>>, 1)
        B23 == ScalarMat(<<<<1, 2, 3>>, <<4, 5, 6>>>>, 1)
        A32 == ScalarMat(<<<<28, -33>>, <<-17, 52>>, <<46, -83>>>>, 10)
        B32 == ScalarMat(<<<<-79, 83>>, <<47, -32>>, <<38, -52>>>>, 10)
        pairs == {<<A22, B23>>, <<A32, B32>>}
                   \cup {<<ScalarMat(MatFromFn(sh[1], sh[2]), 1),
                           ScalarMat(MatFromFn(sh[3], sh[4]), 2)>> :
                            sh \in (1..2) \X (1..2) \X (1..2) \X (1..2)}
    IN {[fn |-> f, pc |-> "called", lhs |-> p[1], rhs |-> p[2]] :
           f \in {"mat_add", "mat_sub"}, p \in pairs}

\* lhs + rhs on references: the operands stay with the caller
MatAdd ==
    /\ helper.fn = "mat_add" /\ helper.pc = "called"
    /\ helper' = [helper EXCEPT !.pc = "returned"] @@ mat_add(helper.lhs, helper.rhs)
    /\ UNCHANGED factorization
MatSub ==
    /\ helper.fn = "mat_sub" /\ helper.pc = "called"
    /\ helper' = [helper EXCEPT !.pc = "returned"] @@ mat_sub(helper.lhs, helper.rhs)
    /\ UNCHANGED factorization
(***************************************************************************)
(* The pivot bookkeeping (lines 982-994) on its own, for any transposition  *)
(* vector lu_in_place_impl can return: t[k] < row count - k.                *)
(***************************************************************************)
\* lines 982-994: the forward walk, the reverse walk and the assertion
pivot_bookkeeping(rp, rpi, rows, g2l, t, sb) ==
    LET fw == PivotForward([row_perm |-> rp, row_perm_inv |-> rpi, rows |-> rows],
                           t, 0, sb, Len(t))
        g == PivotReverse(g2l, fw.rows, t, Len(t))
    IN [after |-> [row_perm |-> fw.row_perm, row_perm_inv |-> fw.row_perm_inv,
                   rows |-> fw.rows, g2l |-> g],
        ret |-> IF \A idx \in 1..Len(fw.rows) : At(g, fw.rows[idx]) = idx - 1
                THEN "Ok" ELSE "panic"]

RECURSIVE TranspositionsOf(_, _)
\* the transposition vectors of length size on cnt rows: t[k] < cnt - k
TranspositionsOf(cnt, size) ==
    IF size = 0 THEN {<<>>}
    ELSE {<<first>> \o rest : first \in 0..(cnt - 1), rest \in TranspositionsOf(cnt - 1, size - 1)}
\* a state line 982 can be reached in: the rows at the positions below s_begin
\* of row_perm are pivoted, s_row_indices is a sorted selection R of the other
\* rows, and row_global_to_local holds their positions and NONE elsewhere
PivotCall(p, sb, R, t) ==
    [fn |-> "pivot_bookkeeping", pc |-> "called",
     row_perm |-> p.forward, row_perm_inv |-> p.inverse,
     rows |-> SortedOf(R),
     g2l |-> [i \in 1..Len(p.forward) |->
                 IF i - 1 \in R THEN Cardinality({r \in R : r < i - 1}) ELSE NONE],
     t |-> t, s_begin |-> sb]
\* the bookkeeping is entered for a matrix of up to MaxRows rows, with at
\* least s_size rows in s_row_indices
PivotCalled ==
    \E k \in 1..MaxRows :
      \E p \in PermutationsOf(k), sb \in 0..(k - 1) :
        \E R \in (SUBSET {p.forward[pos] : pos \in (sb + 1)..k}) \ {{}} :
          \E size \in 1..Cardinality(R) :
            \E t \in TranspositionsOf(Cardinality(R), size) :
              helper = PivotCall(p, sb, R, t)

PivotBookkeeping ==
    /\ helper.fn = "pivot_bookkeeping" /\ helper.pc = "called"
    /\ helper' = [helper EXCEPT !.pc = "returned"]
                    @@ pivot_bookkeeping(helper.row_perm, helper.row_perm_inv, helper.rows,
                                         helper.g2l, helper.t, helper.s_begin)
    /\ UNCHANGED factorization
(***************************************************************************)
(* Products of three factors, two permutations and a dense matrix, written  *)
(* with either grouping.                                                    *)
(***************************************************************************)
PermChainCalls ==
    UNION {
      {[fn |-> "perm_perm_dense", pc |-> "called", p |-> p, q |-> q, dense |-> MatFromFn(k, c)] :
           p \in PermutationsOf(k), q \in PermutationsOf(k), c \in 1..2}
      \cup
      {[fn |-> "dense_perm_perm", pc |-> "called", p |-> p, q |-> q, dense |-> MatFromFn(r, k)] :
           p \in PermutationsOf(k), q \in PermutationsOf(k), r \in 1..2}
      : k \in 1..MaxPermLen}

\* (p * q) * a and p * (q * a)
PermPermDense ==
    /\ helper.fn = "perm_perm_dense" /\ helper.pc = "called"
    /\ helper' = [helper EXCEPT !.pc = "returned"]
          @@ [grouped |-> perm_mul_dense(perm_mul_perm(helper.p, helper.q), helper.dense),
              chained |-> perm_mul_dense(helper.p, perm_mul_dense(helper.q, helper.dense))]
    /\ UNCHANGED factorization
\* b * (p * q) and (b * p) * q
DensePermPerm ==
    /\ helper.fn = "dense_perm_perm" /\ helper.pc = "called"
    /\ helper' = [helper EXCEPT !.pc = "returned"]
          @@ [grouped |-> dense_mul_perm(helper.dense, perm_mul_perm(helper.p, helper.q)),
              chained |-> dense_mul_perm(dense_mul_perm(helper.dense, helper.p), helper.q)]
    /\ UNCHANGED factorization
\* no factorization and no solve is going on
NoFactorization ==
    /\ A = <<>> /\ col_perm = <<>>
    /\ symbolic = [supernode_ptr |-> <<0>>, super_etree |-> <<>>, supernode_postorder |-> <<>>,
                   supernode_postorder_inv |-> <<>>, descendant_count |-> <<>>]
    /\ lu_before = SupernodalLuNew /\ lu = SupernodalLuNew
    /\ index_max = SignedMax(IndexBits32)
    /\ row_perm = <<>> /\ row_perm_inv = <<>>
    /\ contrib_work = <<>>
    /\ col_global_to_local = <<>> /\ row_global_to_local = <<>>
    /\ marked = <<>> /\ transpositions = <<>>
    /\ A_leftover = 0 /\ scattered = <<>> /\ allocated = <<>>
    /\ s = 0 /\ pc = "idle" /\ result = <<"none">>
    /\ solve = SolveIdle /\ solve2 = SolveIdle
InitHelpers ==
    /\ NoFactorization
    /\ \/ helper \in ResizeCalls \cup PermCalls \cup DenseCalls \cup PermChainCalls
       \/ PivotCalled
NextHelpers ==
    \/ ResizeIndex \/ ResizeScalar \/ ResizeMaybeUninitScalar
    \/ PermMulPerm \/ PermMulDense \/ DenseMulPerm
    \/ MatAdd \/ MatSub
    \/ PivotBookkeeping
    \/ PermPermDense \/ DensePermPerm
SpecHelpers == InitHelpers /\ [][NextHelpers]_vars

(***************************************************************************)
(* Properties.                                                             *)
(***************************************************************************)
RECURSIVE RowDot(_, _, _)
RowDot(row, x, cnt) ==
    IF cnt = 0 THEN faer_zero
    ELSE faer_add(RowDot(row, x, cnt - 1), faer_mul(Num(row[cnt]), x[cnt]))
\* M * x for the caller's matrix
MatVec(M, x) == [i \in 1..Len(M) |-> RowDot(M[i], x, Len(x))]
Nonsingular(M) == Det(M) # 0
IsInvolution(p) == \A k \in 1..Len(p) : At(p, p[k]) = k - 1
SolveDone(transpose) == solve.pc = "done" /\ solve.transpose = transpose

\* C1: after Ok, for a nonsingular A and every column permutation, the
\* non-transposed solve overwrites rhs = b with x such that A * x = b.
SolveRoundTrip ==
    SolveDone(FALSE) /\ Nonsingular(A) => MatVec(A, solve.X) = solve.rhs

\* C2: the last step of the non-transposed solve applies the inverse of the
\* column permutation: out[col_perm.forward[j]] = X[j] for every j, X being
\* the result of the L and U substitutions.
SolveAppliesInverseColPerm ==
    SolveDone(FALSE) =>
        \A j \in 0..(n - 1) : At(solve.X, At(col_perm, j)) = At(solve.temp, j)

\* C3: for a nonsingular A and every column permutation the transposed solve
\* overwrites rhs = b with x such that A^T * x = b; rhs is permuted by Pc on
\* entry and the result by the inverse of Pr on exit.
TransposeSolveCorrect ==
    /\ solve.pc = "u_solve_transpose" =>
          \A i \in 0..(n - 1) : At(solve.temp, i) = At(solve.rhs, At(col_perm, i))
    /\ SolveDone(TRUE) =>
          \A i \in 0..(n - 1) : At(solve.X, At(row_perm, i)) = At(solve.temp, i)
    /\ SolveDone(TRUE) /\ Nonsingular(A) => MatVec(AT, solve.X) = solve.rhs
TransposeSolveWitness ==
    /\ SolveDone(TRUE) /\ Nonsingular(A)
    /\ ~IsInvolution(col_perm) /\ row_perm # Iota(m)
    /\ lu.nsupernodes >= 2 /\ Len(lu.ut_row_ind) > 0
    /\ MatVec(AT, solve.X) = solve.rhs

\* C4: after the identity fill and after every pivot bookkeeping, whatever
\* transposition vector the panel LU returns, row_perm and row_perm_inv are
\* permutations of 0..m-1 and row_perm[row_perm_inv[i]] = i for all i.
MutualInverses(rp, rpi) ==
    /\ IsPermutation(rp) /\ IsPermutation(rpi)
    /\ \A i \in 0..(Len(rp) - 1) : At(rp, At(rpi, i)) = i
\* the vectors a panel LU of h rows and cnt columns can return: row k is
\* swapped with a row k + t[k] of the panel
TranspositionVectors(h, cnt) ==
    {t \in [1..cnt -> 0..(h - 1)] : \A k \in 1..cnt : k - 1 + t[k] <= h - 1}
RowPermsMutualInverses ==
    /\ MutualInverses(row_perm, row_perm_inv)
    /\ pc = "PanelLU" /\ LRowCount(lu, s) >= s_size =>
          \A t \in TranspositionVectors(LRowCount(lu, s), s_size) :
             LET fw == PivotForward([row_perm |-> row_perm,
                                     row_perm_inv |-> row_perm_inv,
                                     rows |-> LRowInd(lu, s)],
                                    t, 0, s_begin, s_size)
             IN MutualInverses(fw.row_perm, fw.row_perm_inv)
RowPermsWitness ==
    /\ pc = "UStructure" /\ s >= 1
    /\ \E k \in 1..m : transpositions[k] # 0
    /\ row_perm # Iota(m) /\ ~IsInvolution(row_perm)

\* C5: the factorization returns SymbolicSingular(s_begin + h) at the first
\* supernode whose L panel has h < s_size rows, before the panel LU and
\* before row_perm / row_perm_inv change for it; with every panel of at
\* least s_size rows it returns no SymbolicSingular.
SymbolicSingularState ==
    /\ result[1] = "SymbolicSingular" =>
          /\ LRowCount(lu, s) < s_size
          /\ result[2] = s_begin + LRowCount(lu, s)
          /\ \A d \in 0..(s - 1) : LRowCount(lu, d) >= SizeOf(d)
    /\ result[1] = "Ok" =>
          \A d \in 0..(n_supernodes - 1) : LRowCount(lu, d) >= SizeOf(d)
SymbolicSingularStep ==
    pc = "PanelLU" =>
        IF LRowCount(lu, s) < s_size
        THEN /\ result' = <<"SymbolicSingular", s_begin + LRowCount(lu, s)>>
             /\ pc' = "returned"
             /\ UNCHANGED <<row_perm, row_perm_inv, lu, transpositions, row_global_to_local>>
        ELSE result'[1] # "SymbolicSingular"
SymbolicSingularAtFirstDeficient ==
    []SymbolicSingularState /\ [][SymbolicSingularStep]_vars
SymbolicSingularWitness ==
    /\ result[1] = "SymbolicSingular" /\ pc = "returned"
    /\ LRowCount(lu, s) > 0 /\ s > 0 /\ row_perm # Iota(m)

\* C6 as stated: scenario S5, the matrix [[0,1],[0,2]] with the identity
\* column permutation, reports SymbolicSingular(1).
S5ReportsOne ==
    A = S5Matrix /\ col_perm = Iota(Len(S5Matrix)) /\ pc = "returned" =>
        result = <<"SymbolicSingular", 1>>
\* C6, amended: scenario S5 reports SymbolicSingular(0), the empty column.
S5ReportsZero ==
    A = S5Matrix /\ col_perm = Iota(Len(S5Matrix)) /\ pc = "returned" =>
        result = <<"SymbolicSingular", 0>>
S5Witness ==
    /\ A = S5Matrix /\ col_perm = Iota(Len(S5Matrix)) /\ pc = "returned"
    /\ result[1] = "SymbolicSingular" /\ s = 0 /\ LRowCount(lu, 0) = 0

\* C7: on a run that returns Ok every stored entry of A is scattered exactly
\* once, into the L panel of its column's supernode if its row is not yet
\* pivoted then, otherwise into the U panel of the supernode that pivots its
\* row; A_leftover is positive before each decrement and 0 at the end.
Stored(i, j) == Entry(A, i, j) # 0
ScatteredCount ==
    SumSeq([k \in 1..(m * n) |-> scattered[((k - 1) \div n) + 1][((k - 1) % n) + 1]])
\* how often entry (i, j) has been written when the L scatter, or the U
\* scatter, of supernode s is the last one done
ExpectedAfterL(i, j) ==
    IF Stored(i, j) /\ (At(col_perm_inv, j) < s_end \/ At(row_perm_inv, i) < s_begin)
    THEN 1 ELSE 0
ExpectedAfterU(i, j) ==
    IF Stored(i, j) /\ (At(col_perm_inv, j) < s_end \/ At(row_perm_inv, i) < s_end)
    THEN 1 ELSE 0
EachEntryScatteredOnce ==
    /\ result # <<"panic", "A_leftover > 0">>
    /\ result # <<"panic", "A_leftover == 0">>
    /\ A_leftover >= 0
    /\ A_leftover = compute_nnz(A) - ScatteredCount
    /\ \A i \in 0..(m - 1), j \in 0..(n - 1) :
          /\ pc \in {"LPanel", "PanelLU"} => scattered[i + 1][j + 1] = ExpectedAfterL(i, j)
          /\ pc \in {"UPanel", "Front", "Clean"} =>
                scattered[i + 1][j + 1] = ExpectedAfterU(i, j)
          /\ result = <<"Ok">> =>
                scattered[i + 1][j + 1] = (IF Stored(i, j) THEN 1 ELSE 0)
    /\ result = <<"Ok">> => A_leftover = 0
ScatterWitness ==
    /\ result = <<"Ok">> /\ A_leftover = 0
    /\ lu.nsupernodes >= 2 /\ Len(lu.ut_row_ind) > 0
    /\ compute_nnz(A) > n /\ row_perm # Iota(m)

\* C8: for every live contribution block, after its creation and after
\* every pass, the number of flags equal to 1 in column j is d_active[j] and
\* d_active_count is the number of columns with d_active[j] > 0; the two
\* asserts of the passes never fail.
FlagsInColumn(c, dj) ==
    Cardinality({di \in 0..(c.mat.nrows - 1) : MatU8At(c.mat, di, dj) = 1})
BlockAccounted(c) ==
    /\ Len(c.mat.data) = c.mat.nrows * Len(c.active)
    /\ Len(c.work) = Len(c.mat.data)
    /\ \A dj \in 0..(Len(c.active) - 1) : FlagsInColumn(c, dj) = At(c.active, dj)
    /\ c.count = Cardinality({dj \in 0..(Len(c.active) - 1) : At(c.active, dj) > 0})
ContributionAccounting ==
    /\ \A d \in 0..(n_supernodes - 1) :
          ~work_is_empty(At(contrib_work, d)) => BlockAccounted(At(contrib_work, d))
    /\ result # <<"panic", "d_active[d_j] >= taken_rows">>
    /\ result # <<"panic", "d_active_count > 0">>
\* a block part of whose cells has been handed over
PartlyTaken(c) ==
    /\ ~work_is_empty(c)
    /\ \E k \in 1..Len(c.mat.data) : c.mat.data[k] = 0
    /\ \E k \in 1..Len(c.mat.data) : c.mat.data[k] = 1
ContributionWitness ==
    /\ pc = "Clean"
    /\ \E d \in 0..(s - 1) :
          PartlyTaken(At(contrib_work, d)) /\ At(contrib_work, d).count < Len(At(contrib_work, d).active)

\* C9: a flag of a contribution block changes only from 1 to 0, its value is
\* zeroed in the same step, and a cell whose flag is 0 holds 0, so that it
\* never again contributes a nonzero value.
ClearedCellsAreZero ==
    \A d \in 0..(n_supernodes - 1) :
        LET c == At(contrib_work, d)
        IN \A k \in 1..Len(c.mat.data) : c.mat.data[k] = 0 => c.work[k] = faer_zero
FlagsOnlyClear ==
    \A d \in 0..(n_supernodes - 1) :
        LET c == At(contrib_work, d)
            c1 == At(contrib_work', d)
        IN /\ work_is_empty(c) /\ ~work_is_empty(c1) => pc = "Front" /\ d = s
           /\ ~work_is_empty(c) /\ ~work_is_empty(c1) =>
                 /\ Len(c1.mat.data) = Len(c.mat.data)
                 /\ \A k \in 1..Len(c.mat.data) :
                       /\ c1.mat.data[k] <= c.mat.data[k]
                       /\ c.mat.data[k] = 1 /\ c1.mat.data[k] = 0 => c1.work[k] = faer_zero
                       /\ c.mat.data[k] = 0 => c1.work[k] = faer_zero
CellsTransferredOnce ==
    []ClearedCellsAreZero /\ [][FlagsOnlyClear]_vars
TransferWitness ==
    /\ pc = "PanelLU"
    /\ \E d \in 0..(s - 1) :
          LET c == At(contrib_work, d)
          IN /\ PartlyTaken(c)
             /\ \E k \in 1..Len(c.mat.data) :
                   c.mat.data[k] = 0 /\ c.work[k] = faer_zero
             /\ \E k \in 1..Len(c.mat.data) :
                   c.mat.data[k] = 1 /\ c.work[k] # faer_zero

\* C10: at the end of every pass a block's store is empty, with its active
\* vector, count and byte matrix reset, if and only if its d_active_count
\* is 0.
FreedIffInactive ==
    \A d \in 0..(n_supernodes - 1) :
        LET c == At(contrib_work, d)
        IN /\ work_is_empty(c) <=> c.count = 0
           /\ work_is_empty(c) => c = ContribEmpty
\* supernode d has had a contribution block
HadBlock(d) == d < s /\ LRowCount(lu, d) > SizeOf(d) /\ UColCount(lu, d) > 0
FreedWitness ==
    /\ pc = "Clean"
    /\ \E d \in 0..(s - 1) : HadBlock(d) /\ work_is_empty(At(contrib_work, d))
    /\ At(contrib_work, s).count > 0 /\ ~work_is_empty(At(contrib_work, s))

\* C11 as stated: after a successful factorization the row indices of every
\* supernode, as the solves read them, are in increasing order.
LRowIndSortedAfterRemap ==
    result = <<"Ok">> => \A d \in 0..(n_supernodes - 1) : IsSorted(LRowInd(lu, d))

\* C11: the row indices of supernode s are strictly increasing when they are
\* stored and sorted (before the pivot swaps); after a successful factorization
\* the first s_size of them are the supernode's own positions in increasing
\* order and the others are distinct positions at or after the supernode's end.
LRowIndPivotedFirst ==
    /\ pc = "LPanel" => IsStrictlySorted(LRowInd(lu, s))
    /\ result = <<"Ok">> =>
          \A d \in 0..(n_supernodes - 1) :
             LET r == LRowInd(lu, d)
             IN /\ Len(r) >= SizeOf(d)
                /\ \A k \in 1..SizeOf(d) : r[k] = At(supernode_ptr, d) + k - 1
                /\ \A k \in (SizeOf(d) + 1)..Len(r) :
                      /\ r[k] >= At(supernode_ptr, d + 1) /\ r[k] < m
                      /\ \A k2 \in (k + 1)..Len(r) : r[k2] # r[k]
LRowIndWitness ==
    /\ result = <<"Ok">>
    /\ \E d \in 0..(n_supernodes - 1) :
          LRowCount(lu, d) >= SizeOf(d) + 2 /\ ~IsSorted(LRowInd(lu, d))

\* the U structure of supernode d has been written (lines 996-1063)
UStructureStored(d) == d < s \/ (d = s /\ pc \in {"UPanel", "Front", "Clean"})

\* C12: for every supernode whose U structure is stored, ut_row_ind of that
\* supernode is strictly increasing and each entry is a permuted column index
\* at or after the supernode's end and below n.
UtRowIndSortedBeyondSupernode ==
    \A d \in 0..(n_supernodes - 1) :
       UStructureStored(d) =>
          LET c == d_col_ind(lu, d)
          IN /\ IsStrictlySorted(c)
             /\ \A k \in 1..Len(c) :
                   c[k] > At(supernode_ptr, d + 1) - 1 /\ c[k] < n
UtRowIndWitness ==
    /\ result = <<"Ok">>
    /\ \E d \in 0..(n_supernodes - 1) :
          /\ UColCount(lu, d) >= 1
          /\ \E d2 \in 0..(d - 1) : At(symbolic.super_etree, d2) = d /\ UColCount(lu, d2) >= 2

\* the L structure of supernode d has been written (lines 793-863)
LStructureStored(d) == d < s \/ (d = s /\ pc # "LStructure")

\* C13: for every supernode whose structure is stored, and so for all of them
\* after a successful factorization, the value offsets advance by
\* (index count) * s_size, for L and for U; the four pointer arrays start at 0
\* and, after a successful factorization, never decrease.
PointerArraysConsistent ==
    /\ \A d \in 0..(n_supernodes - 1) :
          /\ LStructureStored(d) =>
                /\ At(lu.l_col_ptr_for_row_ind, d + 1) >= At(lu.l_col_ptr_for_row_ind, d)
                /\ At(lu.l_col_ptr_for_val, d + 1) - At(lu.l_col_ptr_for_val, d)
                      = (At(lu.l_col_ptr_for_row_ind, d + 1)
                           - At(lu.l_col_ptr_for_row_ind, d)) * SizeOf(d)
          /\ UStructureStored(d) =>
                /\ At(lu.ut_col_ptr_for_row_ind, d + 1) >= At(lu.ut_col_ptr_for_row_ind, d)
                /\ At(lu.ut_col_ptr_for_val, d + 1) - At(lu.ut_col_ptr_for_val, d)
                      = (At(lu.ut_col_ptr_for_row_ind, d + 1)
                           - At(lu.ut_col_ptr_for_row_ind, d)) * SizeOf(d)
    /\ \A ptr \in {lu.l_col_ptr_for_row_ind, lu.l_col_ptr_for_val,
                   lu.ut_col_ptr_for_row_ind, lu.ut_col_ptr_for_val} :
          /\ Len(ptr) = n_supernodes + 1 /\ At(ptr, 0) = 0
          /\ result = <<"Ok">> => IsSorted(ptr)
PointerArraysWitness ==
    /\ result = <<"Ok">>
    /\ \E d \in 0..(n_supernodes - 1) :
          SizeOf(d) >= 2 /\ LRowCount(lu, d) > SizeOf(d) /\ UColCount(lu, d) >= 1

\* the factorization at hand is scenario S3 / S4
ScenarioS3 == A = S3Matrix /\ col_perm = Reversal(6)
ScenarioS4 == A = S4Matrix /\ col_perm = Iota(8)
S3Rhs == [i \in 1..6 |-> Num(i - 1)]

\* C14 as stated: in scenario S3 the solve on b = (0,1,2,3,4,5) returns
\* (5,4,3,2,1,0).
S3SolveReturnsReversed ==
    ScenarioS3 /\ SolveDone(FALSE) /\ solve.rhs = S3Rhs
       => solve.X = [i \in 1..6 |-> Num(6 - i)]

\* C14: in scenario S3 every supernode has size 1, the factorization never
\* allocates a contribution block and returns Ok, and the solve on
\* b = (0,1,2,3,4,5) returns x = (0,1,2,3,4,5), the solution of I * x = b.
S3NoBlockSolveReturnsRhs ==
    ScenarioS3 =>
       /\ supernode_ptr = Iota(7)
       /\ allocated = <<>>
       /\ pc = "returned" => result = <<"Ok">>
       /\ SolveDone(FALSE) /\ solve.rhs = S3Rhs => solve.X = S3Rhs
S3Witness ==
    ScenarioS3 /\ SolveDone(FALSE) /\ solve.rhs = S3Rhs

\* C15 as stated: in scenario S4 the factorization allocates exactly one
\* contribution block, of 7 rows and 1 column.
S4AllocatesOneBlock ==
    ScenarioS4 /\ result = <<"Ok">> =>
       Len(allocated) = 1 /\ allocated[1][2] = 7 /\ allocated[1][3] = 1

\* C15: in scenario S4 every supernode has size 1, the L panel of each
\* supernode has one row, the only U column is column 7 of supernode 0, and
\* the factorization allocates no contribution block and returns Ok.
S4AllocatesNoBlock ==
    ScenarioS4 =>
       /\ supernode_ptr = Iota(9)
       /\ allocated = <<>>
       /\ pc = "returned" => result = <<"Ok">>
       /\ result = <<"Ok">> =>
             /\ \A d \in 0..7 : LRowCount(lu, d) = 1
             /\ d_col_ind(lu, 0) = <<7>>
             /\ \A d \in 1..7 : UColCount(lu, d) = 0
S4Witness ==
    ScenarioS4 /\ result = <<"Ok">>

\* what a solve on b returns when it runs alone on the factor
SolveAlone(b, transpose) ==
    IF transpose
    THEN permute_rows(
            l_solve_transpose_in_place_with_conj(lu,
               u_solve_transpose_in_place_with_conj(lu, permute_rows(b, col_perm))),
            row_perm_inv)
    ELSE permute_rows(
            u_solve_in_place_with_conj(lu,
               l_solve_in_place_with_conj(lu, permute_rows(b, row_perm))),
            col_perm)
SolvesIndependentState ==
    \A r \in {solve, solve2} : r.pc = "done" => r.X = SolveAlone(r.rhs, r.transpose)
\* once the factorization has returned no step writes the factor or the permutations
FactorReadOnlyStep ==
    pc = "returned" => lu' = lu /\ row_perm' = row_perm /\ row_perm_inv' = row_perm_inv

\* C16: the solves never modify the factor, and with two solves on distinct
\* right-hand sides and workspaces interleaved in any order each returns what
\* it returns when running alone.
ConcurrentSolvesIndependent ==
    [](SolvesIndependentState) /\ [][FactorReadOnlyStep]_vars
ConcurrentSolvesWitness ==
    /\ solve.pc = "done" /\ solve2.pc = "done"
    /\ solve.rhs # solve2.rhs /\ solve.X # solve2.X
    /\ solve.transpose # solve2.transpose
    /\ lu.nsupernodes >= 2

\* the results that are an Err of factorize_supernodal_numeric_lu
IsErr(r) == r[1] \in {"OutOfMemory", "IndexOverflow", "SymbolicSingular"}
LuInvalid(f) == f.nrows = 0 /\ f.ncols = 0 /\ f.nsupernodes = 0 /\ f.supernode_ptr = <<>>

\* C17: whenever factorize returns an Err the factor reports nrows = ncols =
\* n_supernodes = 0 and an empty supernode_ptr, also when it held a valid
\* factorization before the call; they are m, n, S and the symbolic
\* supernode_ptr on Ok and stay invalid until then.
LuInvalidUnlessOk ==
    /\ IsErr(result) => LuInvalid(lu)
    /\ result = <<"Ok">> =>
          /\ lu.nrows = m /\ lu.ncols = n /\ lu.nsupernodes = n_supernodes
          /\ lu.supernode_ptr = supernode_ptr
    /\ result = <<"none">> => LuInvalid(lu)
LuInvalidWitness ==
    /\ pc = "returned" /\ result = <<"IndexOverflow">>
    /\ lu_before = StaleLu /\ s >= 1
    /\ LuInvalid(lu) /\ ~LuInvalid(lu_before)

\* C18 as stated: when a try_reserve fails, each of the three resize helpers
\* returns Err(OutOfMemory) and leaves the buffer as it was: every component
\* keeps its length and elements, nothing is grown and no length exceeds its
\* capacity.
ResizeFailureLeavesBuffer ==
    helper.pc = "returned" /\ helper.fn \in {"resize_index", "resize_scalar",
                                             "resize_maybe_uninit_scalar"}
       /\ helper.failed
       => /\ helper.ret = "OutOfMemory"
          /\ \A c \in 1..Len(helper.after) :
                /\ helper.after[c].elems = helper.before[c].elems
                /\ Len(helper.after[c].elems) <= helper.after[c].cap

HelperReturned(fn) == helper.fn = fn /\ helper.pc = "returned"
IdentityPermutation(k) == [forward |-> Iota(k), inverse |-> Iota(k)]

\* C19: the product of two permutations of equal length is a permutation whose
\* inverse array inverts its forward array, and P * P.inverse() is the identity.
PermProductIsPermutation ==
    HelperReturned("perm_mul_perm") =>
       LET k == Len(helper.lhs.forward)
       IN /\ Len(helper.out.forward) = k /\ Len(helper.out.inverse) = k
          /\ IsPermutation(helper.out.forward)
          /\ MutualInverses(helper.out.forward, helper.out.inverse)
          /\ helper.rhs = inverse(helper.lhs) => helper.out = IdentityPermutation(k)
PermProductWitness ==
    /\ HelperReturned("perm_mul_perm")
    /\ helper.rhs = inverse(helper.lhs)
    /\ helper.lhs.forward # helper.lhs.inverse
    /\ Len(helper.lhs.forward) = 6

\* the 0/1 matrix of a permutation: M[i, forward[i]] = 1
PermutationMatrix(p) ==
    [i \in 1..Len(p.forward) |-> [j \in 1..Len(p.forward) |->
        IF p.forward[i] = j - 1 THEN 1 ELSE 0]]
\* the dense product X * Y
DenseProduct(X, Y) ==
    [i \in 1..Len(X) |-> [j \in 1..Len(Y[1]) |->
        SumSeq([k \in 1..Len(Y) |-> X[i][k] * Y[k][j]])]]

\* C20: P * A and A * P agree with the products by the 0/1 matrix of P:
\* (P * A)[i, j] = A[forward[i], j] and (A * P)[i, j] = A[i, inverse[j]].
PermDenseAgreesWithMatrix ==
    /\ HelperReturned("perm_mul_dense") =>
          /\ helper.out = DenseProduct(PermutationMatrix(helper.lhs), helper.rhs)
          /\ \A i \in 1..Len(helper.rhs) : \A j \in 1..Len(helper.rhs[1]) :
                helper.out[i][j] = helper.rhs[helper.lhs.forward[i] + 1][j]
    /\ HelperReturned("dense_mul_perm") =>
          /\ helper.out = DenseProduct(helper.lhs, PermutationMatrix(helper.rhs))
          /\ \A i \in 1..Len(helper.lhs) : \A j \in 1..Len(helper.lhs[1]) :
                helper.out[i][j] = helper.lhs[i][helper.rhs.inverse[j] + 1]
PermDenseWitness ==
    /\ HelperReturned("perm_mul_dense")
    /\ helper.lhs.forward # helper.lhs.inverse
    /\ Len(helper.rhs) = 6 /\ Len(helper.rhs[1]) = 5

\* the operands of a returned call are the ones it was called with
OperandsKeptStep ==
    helper.pc = "called" /\ helper'.pc = "returned" /\ helper.fn \in {"mat_add", "mat_sub"}
       => helper'.lhs = helper.lhs /\ helper'.rhs = helper.rhs
\* what a returned Dense + Dense or Dense - Dense holds
DenseAddSubReturned ==
    \A f \in {"mat_add", "mat_sub"} :
       HelperReturned(f) =>
          IF Shape(helper.lhs) # Shape(helper.rhs)
          THEN helper.ret = "panic" /\ "out" \notin DOMAIN helper
          ELSE /\ helper.ret = "Ok"
               /\ Shape(helper.out) = Shape(helper.lhs)
               /\ Len(helper.out) = Len(helper.rhs)
               /\ \A i \in 1..Len(helper.lhs) : \A j \in 1..Len(helper.lhs[1]) :
                     helper.out[i][j] =
                        IF f = "mat_add" THEN faer_add(helper.lhs[i][j], helper.rhs[i][j])
                        ELSE faer_sub(helper.lhs[i][j], helper.rhs[i][j])
\* C21: adding or subtracting dense matrices of different shapes panics and
\* gives no result; for equal shapes the result has that shape, entry (i, j)
\* is lhs[i, j] + rhs[i, j] (resp. lhs[i, j] - rhs[i, j]), and the operands
\* are not modified.
DenseAddSubContract == [](DenseAddSubReturned) /\ [][OperandsKeptStep]_vars
DenseAddSubWitness ==
    /\ HelperReturned("mat_add")
    /\ Shape(helper.lhs) = <<2, 2>> /\ Shape(helper.rhs) = <<2, 3>>
    /\ helper.ret = "panic"

\* C22: after the forward walk over the transposition vector t of a supernode
\* (any t with 0 <= t[k] < row count - k), the first s_size entries of its
\* l_row_ind are the pivoted rows in pivot order: row_perm[s_begin + idx] =
\* l_row_ind[idx] and row_perm_inv[l_row_ind[idx]] = s_begin + idx, and
\* l_row_ind is a permutation of its pre-pivot contents.
PivotedRowsHeadLRowInd ==
    HelperReturned("pivot_bookkeeping") =>
       /\ \A idx \in 0..(Len(helper.t) - 1) :
             /\ At(helper.after.row_perm, helper.s_begin + idx) = At(helper.after.rows, idx)
             /\ At(helper.after.row_perm_inv, At(helper.after.rows, idx)) = helper.s_begin + idx
       /\ Len(helper.after.rows) = Len(helper.rows)
       /\ Range(helper.after.rows) = Range(helper.rows)
PivotedRowsWitness ==
    /\ HelperReturned("pivot_bookkeeping")
    /\ helper.s_begin = 1 /\ Len(helper.t) = 2 /\ Len(helper.rows) = 3
    /\ helper.t = <<2, 1>>
    /\ helper.row_perm # Iota(MaxRows)
    /\ helper.after.rows # helper.rows

\* C23: after the reverse walk row_global_to_local is the position map of the
\* pivot-permuted l_row_ind (row_global_to_local[l_row_ind[idx]] = idx), so the
\* assertion of lines 992-994 holds for every transposition vector, also when
\* one row takes part in several swaps.
RowMapRestoredAfterPivot ==
    HelperReturned("pivot_bookkeeping") =>
       /\ helper.ret = "Ok"
       /\ \A idx \in 0..(Len(helper.after.rows) - 1) :
             At(helper.after.g2l, At(helper.after.rows, idx)) = idx
       /\ \A i \in 0..(Len(helper.g2l) - 1) :
             i \notin Range(helper.rows) => At(helper.after.g2l, i) = NONE
RowMapRestoredWitness ==
    /\ HelperReturned("pivot_bookkeeping")
    /\ Len(helper.rows) = 4 /\ helper.t = <<1, 1, 1>>
    /\ At(helper.after.rows, 3) = At(helper.rows, 0)
    /\ helper.ret = "Ok"

\* C24: at the start of every supernode iteration, and after the last one,
\* every entry of row_global_to_local and of col_global_to_local is NONE: the
\* reset over l_row_ind[s] and ut_row_ind[s] at the end of iteration s undoes
\* every write of the iteration, the swaps of the pivot bookkeeping included.
LocalMapsClearedBetweenSupernodes ==
    pc \in {"LStructure", "Finish"} \/ (pc = "returned" /\ result = <<"Ok">>) =>
       /\ \A i \in 0..(m - 1) : At(row_global_to_local, i) = NONE
       /\ \A j \in 0..(n - 1) : At(col_global_to_local, j) = NONE
LocalMapsClearedWitness ==
    /\ pc = "LStructure" /\ s >= 1
    /\ \E k \in At(supernode_ptr, s - 1)..(At(supernode_ptr, s) - 1) : At(transpositions, k) > 0
    /\ LRowCount(lu, s - 1) > SizeOf(s - 1)
    /\ UColCount(lu, s - 1) > 0

NoDuplicate(a) == Cardinality(Range(a)) = Len(a)
\* C25: with the markers 2s + 1 (L pass) and 2s + 2 (U pass) on the one array
\* `marked`, no pass is affected by the marks of another: l_row_ind[s] and
\* ut_row_ind[s] hold every row, resp. every column, that satisfies the
\* inclusion condition, each exactly once.
MarkersKeepPassesApart ==
    /\ pc = "LPanel" =>
          /\ NoDuplicate(LRowInd(lu, s))
          /\ Range(LRowInd(lu, s)) = Range(LCandidates)
    /\ pc = "UPanel" =>
          /\ NoDuplicate(d_col_ind(lu, s))
          /\ Range(d_col_ind(lu, s)) = Range(UCandidates)
MarkersWitness ==
    /\ pc = "UPanel" /\ s >= 1
    /\ Range(d_col_ind(lu, s)) \cap Range(LRowInd(lu, s)) # {}
    /\ Len(UCandidates) > UColCount(lu, s)
    /\ \E j \in Range(d_col_ind(lu, s)) : \E d \in 0..(s - 1) : j \in Range(LRowInd(lu, d))

\* the registry entry of s right after the Front step of s
ContributionBlockOfS ==
    pc = "Clean" =>
       LET h == LRowCount(lu, s) - s_size
           w == UColCount(lu, s)
           c == At(contrib_work, s)
       IN IF LRowCount(lu, s) > s_size /\ w > 0
          THEN /\ Len(c.work) = h * w
               /\ c.active = Fill(w, h)
               /\ c.count = w
               /\ c.mat.nrows = h /\ Len(c.mat.data) = h * w
               /\ \A i \in 0..(h - 1) : \A j \in 0..(w - 1) : MatU8At(c.mat, i, j) = 1
               /\ allocated # <<>> /\ allocated[Len(allocated)] = <<s, h, w>>
          ELSE /\ c = ContribEmpty
               /\ \A k \in 1..Len(allocated) : allocated[k][1] # s
\* without a block the Front pass is skipped: no registry entry changes
FrontSkippedStep ==
    pc = "Front" /\ pc' = "Clean"
       /\ ~(LRowCount(lu, s) > s_size /\ UColCount(lu, s) > 0)
       => contrib_work' = contrib_work /\ allocated' = allocated
\* C26: supernode s gets a contribution block iff |l_row_ind[s]| > s_size and
\* |ut_row_ind[s]| > 0; the block is (|l_row_ind[s]| - s_size) x |ut_row_ind[s]|
\* with s_active[j] = |l_row_ind[s]| - s_size for every column, s_active_count =
\* |ut_row_ind[s]| and every flag of s_active_mat 1; otherwise the entry of s
\* stays empty with count 0 and the Front pass over the descendants is skipped.
ContributionBlockCreation == [](ContributionBlockOfS) /\ [][FrontSkippedStep]_vars
ContributionBlockWitness ==
    /\ pc = "Clean" /\ s >= 1
    /\ Len(Descendants) >= 1
    /\ At(contrib_work, s).mat.nrows >= 1 /\ At(contrib_work, s).count >= 1
    /\ \E d \in 0..(s - 1) : LRowCount(lu, d) > SizeOf(d) /\ UColCount(lu, d) = 0

\* every offset stored in a pointer array, and the size of every contribution
\* block, is at most I::Signed::MAX
StoredOffsetsFit ==
    /\ \A k \in 1..Len(lu.l_col_ptr_for_row_ind) :
          /\ lu.l_col_ptr_for_row_ind[k] \in 0..index_max
          /\ lu.l_col_ptr_for_val[k] \in 0..index_max
          /\ lu.ut_col_ptr_for_row_ind[k] \in 0..index_max
          /\ lu.ut_col_ptr_for_val[k] \in 0..index_max
    /\ \A d \in 1..Len(contrib_work) : Len(contrib_work[d].work) <= index_max
\* a pass whose offset or element count exceeds I::Signed::MAX returns
\* Err(IndexOverflow) at its supernode
OverflowReturnsStep ==
    LET returns == pc' = "returned" /\ result' = <<"IndexOverflow">> /\ s' = s
        lcnt == Len(MarkCollect(LCandidates, marked, <<>>, 2 * s + 1).indices)
        ucnt == Len(MarkCollect(UCandidates, marked, <<>>, 2 * s + 2).indices)
        loverflow == \/ At(lu.l_col_ptr_for_row_ind, s) + lcnt > index_max
                     \/ At(lu.l_col_ptr_for_val, s) + lcnt * s_size > index_max
        uoverflow == \/ At(lu.ut_col_ptr_for_row_ind, s) + ucnt > index_max
                     \/ At(lu.ut_col_ptr_for_val, s) + ucnt * s_size > index_max
        foverflow == /\ LRowCount(lu, s) > s_size /\ UColCount(lu, s) > 0
                     /\ (LRowCount(lu, s) - s_size) * UColCount(lu, s) > index_max
    IN /\ (pc = "LStructure" /\ pc' # pc /\ loverflow) => returns
       /\ (pc = "UStructure" /\ pc' # pc /\ uoverflow) => returns
       /\ (pc = "Front" /\ pc' # pc /\ foverflow) => (returns /\ contrib_work' = contrib_work)
\* C27: whenever a cumulative row-index offset, a cumulative value offset
\* (previous + count * s_size) or the element count of a contribution block
\* would exceed the maximum of the signed counterpart of the index type, the
\* factorization returns Err(Generic(IndexOverflow)) at that supernode, and no
\* offset above that maximum is ever stored in a pointer array.
IndexOverflowSurfaced == [](StoredOffsetsFit) /\ [][OverflowReturnsStep]_vars
IndexOverflowWitness ==
    /\ pc = "returned" /\ result = <<"IndexOverflow">> /\ s >= 1
    /\ At(lu.l_col_ptr_for_row_ind, s + 1) > 0
    /\ At(lu.ut_col_ptr_for_row_ind, s + 1) = 0
    /\ At(lu.ut_col_ptr_for_row_ind, s) + (Order(A) - s - 1) > index_max

\* the L row indices of every supernode after the remap of lines 1314-1316
LRowIndInFinalCoordinates ==
    result = <<"Ok">> =>
       \A d \in 0..(n_supernodes - 1) :
          /\ Slice(LRowInd(lu, d), 0, SizeOf(d)) =
                [k \in 1..SizeOf(d) |-> At(supernode_ptr, d) + k - 1]
          /\ \A i \in Range(d_row_ind(lu, d)) : At(supernode_ptr, d + 1) <= i /\ i < n
\* the positions of row_perm below the current supernode are not written again
PivotedPositionsKeptStep ==
    \A k \in 0..(s_begin - 1) :
       /\ At(row_perm', k) = At(row_perm, k)
       /\ At(row_perm_inv', At(row_perm, k)) = k
\* C28: after a successful factorization of a square matrix, with l_row_ind
\* remapped through the final row_perm_inv, the first s_size entries of
\* l_row_ind[s] are s_begin, ..., s_end - 1 in that order and every later entry
\* lies in [s_end, n); no supernode processed after s changes a position of
\* row_perm below s_end.
LRowIndHeadIsOwnColumns == [](LRowIndInFinalCoordinates) /\ [][PivotedPositionsKeptStep]_vars
LRowIndHeadWitness ==
    /\ result = <<"Ok">> /\ n_supernodes >= 2
    /\ At(transpositions, 0) > 0
    /\ \E k \in At(supernode_ptr, 1)..(n - 1) : At(transpositions, k) > 0
    /\ LRowCount(lu, 0) > SizeOf(0)
    /\ row_perm # Iota(m)

\* C29: when the factorization of a square matrix with a valid symbolic
\* structure returns Ok, every contribution block that was allocated has been
\* freed: each of its cells was absorbed by the LPanel, UPanel or Front pass of
\* a later supernode, no registry entry is left with d_active_count > 0.
AllBlocksAbsorbedAtOk ==
    pc = "Finish" \/ result = <<"Ok">> =>
       \A d \in 0..(n_supernodes - 1) :
          /\ work_is_empty(At(contrib_work, d))
          /\ At(contrib_work, d).count = 0
          /\ At(contrib_work, d).active = <<>>
          /\ At(contrib_work, d).mat = MatU8New(0, 0)
AllBlocksAbsorbedWitness ==
    /\ result = <<"Ok">>
    /\ n_supernodes = 3
    /\ allocated = <<<<0, 2, 2>>, <<1, 1, 1>>>>
    /\ At(transpositions, 0) > 0

\* C30 as stated: the permutation product is compatible with the action of
\* permutations on dense matrices: (P * Q) * A = P * (Q * A) and
\* B * (P * Q) = (B * P) * Q.
PermProductCompatibleWithAction ==
    HelperReturned("perm_perm_dense") \/ HelperReturned("dense_perm_perm") =>
       helper.grouped = helper.chained
=============================================================================
